---- MODULE Spec2Model ----
(***************************************************************************)
(* StreamWatch ETL scripts: the column-name standardisation, the column    *)
(* classification heuristic of the import loops, the row normaliser, the   *)
(* quality-flag annotator of clean_sheet_data and the target-table writer. *)
(*                                                                         *)
(* Text is modelled as a sequence of one-character strings, so that        *)
(* str.strip, str.lower, str.replace and the substring tests of the source *)
(* are computed, not assumed.                                              *)
(***************************************************************************)
EXTENDS Integers, Sequences, FiniteSets, TLC

VARIABLES
    prog,       \* which script / function is running
    pc,         \* its position
    cols,       \* df.columns of the sheet being processed
    dtypes,     \* dtype of each column
    rows,       \* the sheet's rows, each a sequence of cells aligned with cols
    sheet,      \* name of the sheet being processed (fix_database_import: the rows of its workbooks)
    cur,        \* cursor of the row loop: index of the next row
    db,         \* committed rows of the destination tables
    view,       \* the rows the open connection sees: db and its uncommitted changes
    imported,   \* the counter the script prints
    role,       \* for each column, the roles under which the last scan used it
    run         \* how many times the script has been started

vars == <<prog, pc, sheet, cols, dtypes, rows, cur, db, view, imported, role, run>>

----------------------------------------------------------------------------
(* Bounds of the model *)

MaxCols == 3
MaxFree == 2
BaseRows == 10
MaxImportRows == 2
MaxRuns == 2
MaxSiteRows == 3
MaxBugRows == 1

----------------------------------------------------------------------------
(* Text *)

Alphabet ==
    [upper |-> <<"A","B","C","D","E","F","G","H","I","J","K","L","M",
                 "N","O","P","Q","R","S","T","U","V","W","X","Y","Z">>,
     lower |-> <<"a","b","c","d","e","f","g","h","i","j","k","l","m",
                 "n","o","p","q","r","s","t","u","v","w","x","y","z">>,
     digit |-> <<"0","1","2","3","4","5","6","7","8","9">>]

\* c is a character of the class, and its position in the class
IsCharOf(class, c) == \E j \in 1..Len(Alphabet[class]) : Alphabet[class][j] = c
CharIndex(class, c) == CHOOSE j \in 1..Len(Alphabet[class]) : Alphabet[class][j] = c

\* str.lower / str.upper
Lower(s) == [k \in 1..Len(s) |-> IF IsCharOf("upper", s[k])
                                 THEN Alphabet.lower[CharIndex("upper", s[k])]
                                 ELSE s[k]]
Upper(s) == [k \in 1..Len(s) |-> IF IsCharOf("lower", s[k])
                                 THEN Alphabet.upper[CharIndex("lower", s[k])]
                                 ELSE s[k]]

\* sub in s
Contains(sub, s) ==
    \E k \in 0..(Len(s) - Len(sub)) : SubSeq(s, k + 1, k + Len(sub)) = sub

RECURSIVE LStrip(_)
LStrip(s) == IF s # <<>> /\ Head(s) = " " THEN LStrip(Tail(s)) ELSE s

RECURSIVE RStrip(_)
RStrip(s) == IF s # <<>> /\ s[Len(s)] = " " THEN RStrip(SubSeq(s, 1, Len(s) - 1)) ELSE s

\* str.strip
Strip(s) == RStrip(LStrip(s))

\* str.replace(c, r) for a one-character c
RECURSIVE Replace(_, _, _)
Replace(s, c, r) ==
    IF s = <<>> THEN <<>>
    ELSE (IF Head(s) = c THEN r ELSE <<Head(s)>>) \o Replace(Tail(s), c, r)

\* str.isalnum: non-empty, letters and digits only
IsAlnum(s) ==
    /\ s # <<>>
    /\ \A k \in 1..Len(s) : \E class \in {"upper", "lower", "digit"} : IsCharOf(class, s[k])

RECURSIVE DigitsValue(_)
DigitsValue(s) == IF s = <<>> THEN 0
                  ELSE 10 * DigitsValue(SubSeq(s, 1, Len(s) - 1)) + (CharIndex("digit", s[Len(s)]) - 1)

\* float(x) / pd.to_numeric on text: surrounding blanks are ignored, a string
\* of digits parses, anything else fails
CanParseFloat(s) == LET t == Strip(s) IN t # <<>> /\ \A k \in 1..Len(t) : IsCharOf("digit", t[k])
ParseFloat(s) == DigitsValue(Strip(s))

\* str(n) for a small non-negative integer
RECURSIVE IntText(_)
IntText(n) == IF n < 10 THEN <<Alphabet.digit[n + 1]>>
              ELSE IntText(n \div 10) \o <<Alphabet.digit[(n % 10) + 1]>>

----------------------------------------------------------------------------
(* Cells *)

Null == [k |-> "null", v |-> 0, s |-> <<>>]
Num(n) == [k |-> "num", v |-> n, s |-> <<>>]
Str(t) == [k |-> "str", v |-> 0, s |-> t]
DateVal(t) == [k |-> "date", v |-> 0, s |-> t]
Bool(b) == [k |-> "bool", v |-> IF b THEN 1 ELSE 0, s |-> <<>>]

\* pd.isna / pd.notna
IsNa(c) == c.k = "null"

\* str(value) of a non-null cell
CellText(c) == IF c.k = "num" THEN IntText(c.v) ELSE c.s

----------------------------------------------------------------------------
(* Literals of the scripts *)

\* headers of the sheets the scripts read
Header ==
    [Site |-> <<"S","i","t","e">>,
     Sample_Date |-> <<"S","a","m","p","l","e"," ","D","a","t","e">>,
     pH |-> <<"p","H">>,
     Count |-> <<"C","o","u","n","t">>,
     Notes |-> <<"N","o","t","e","s">>,
     Temp_C |-> <<"T","e","m","p"," ","C">>,
     Temp_C_us |-> <<"T","e","m","p","_","C">>,
     Temp_C_dash |-> <<"T","e","m","p","-","C">>,
     Unnamed_prefix |-> <<"U","n","n","a","m","e","d",":"," ">>,
     Sample_Time |-> <<"S","a","m","p","l","e"," ","T","i","m","e">>,
     Temp_Date |-> <<"T","e","m","p"," ","D","a","t","e">>,
     Sample_Code |-> <<"S","a","m","p","l","e"," ","C","o","d","e">>,
     Station |-> <<"S","t","a","t","i","o","n">>,
     Family |-> <<"F","a","m","i","l","y">>,
     Result |-> <<"R","e","s","u","l","t">>,
     Quality |-> <<"Q","u","a","l","i","t","y">>,
     Volunteer_ID |-> <<"V","o","l","u","n","t","e","e","r"," ","I","D">>,
     Site_ID |-> <<"S","i","t","e"," ","I","D">>,
     Collection_Date |-> <<"C","o","l","l","e","c","t","i","o","n"," ","D","a","t","e">>,
     Parameter |-> <<"P","a","r","a","m","e","t","e","r">>,
     Status |-> <<"S","t","a","t","u","s">>,
     First_Name |-> <<"F","i","r","s","t"," ","N","a","m","e">>,
     Site_Notes |-> <<"S","i","t","e"," ","N","o","t","e","s">>]

\* cell texts of the sheets the scripts read
Value ==
    [ac1_sp |-> <<"a","c","1"," ">>,
     AC1 |-> <<"A","C","1">>,
     date |-> <<"2","0","2","4","-","0","1","-","0","5">>,
     bad |-> <<"b","a","d">>,
     x |-> <<"x">>,
     B7 |-> <<"B","7">>,
     Mayfly |-> <<"M","a","y","f","l","y">>,
     sp |-> <<" ">>,
     Rejected |-> <<"R","e","j","e","c","t","e","d">>,
     n7 |-> <<"7">>,
     V12 |-> <<"V","1","2">>,
     AC1_2024 |-> <<"A","C","1","_","2","0","2","4">>,
     Creek |-> <<"C","r","e","e","k">>]

\* texts the scripts write into a field
Text ==
    [clean |-> <<"c","l","e","a","n">>,
     high_missing |-> <<"h","i","g","h","_","m","i","s","s","i","n","g">>,
     potential_outlier |-> <<"p","o","t","e","n","t","i","a","l","_","o","u","t","l","i","e","r">>,
     IDEXX |-> <<"I","D","E","X","X">>,
     E_coli |-> <<"E","."," ","c","o","l","i">>,
     CFU |-> <<"C","F","U","/","1","0","0","m","l">>,
     Unknown |-> <<"U","n","k","n","o","w","n">>,
     Collected |-> <<"C","o","l","l","e","c","t","e","d">>,
     Monitoring |-> <<"M","o","n","i","t","o","r","i","n","g">>,
     Scheduled |-> <<"S","c","h","e","d","u","l","e","d">>,
     nan |-> <<"n","a","n">>,
     Temperature |-> <<"T","e","m","p","e","r","a","t","u","r","e">>,
     degC |-> <<"°","C">>,
     CAT_Meter |-> <<"C","A","T"," ","M","e","t","e","r">>,
     Active |-> <<"A","c","t","i","v","e">>]

\* column names the scripts create or read by name
Name ==
    [Site_ID |-> <<"S","i","t","e","_","I","D">>,
     Date |-> <<"D","a","t","e">>,
     Column_prefix |-> <<"C","o","l","u","m","n","_">>,
     data_quality_flag |-> <<"d","a","t","a","_","q","u","a","l","i","t","y","_","f","l","a","g">>,
     suffix_missing_flag |-> <<"_","m","i","s","s","i","n","g","_","f","l","a","g">>,
     SiteCode |-> <<"S","i","t","e","C","o","d","e">>,
     WaterBody |-> <<"W","a","t","e","r","B","o","d","y">>,
     Description |-> <<"D","e","s","c","r","i","p","t","i","o","n">>,
     Latitude |-> <<"L","a","t","i","t","u","d","e">>,
     Longitude |-> <<"L","o","n","g","i","t","u","d","e">>,
     Waterbody |-> <<"W","a","t","e","r","b","o","d","y">>,
     Genus |-> <<"G","e","n","u","s">>,
     Abundance |-> <<"A","b","u","n","d","a","n","c","e">>,
     Dominance |-> <<"D","o","m","i","n","a","n","c","e">>]

\* names of the sheets of a workbook
SheetName ==
    [IDEXX_Results |-> <<"I","D","E","X","X"," ","R","e","s","u","l","t","s">>,
     Assignments |-> <<"A","s","s","i","g","n","m","e","n","t","s">>,
     Volunteers |-> <<"V","o","l","u","n","t","e","e","r","s">>,
     HAB_Samples |-> <<"H","A","B"," ","S","a","m","p","l","e","s">>,
     Bact_and_HAB |-> <<"B","A","C","T"," ","a","n","d"," ","H","A","B">>,
     Field_Data |-> <<"F","i","e","l","d"," ","D","a","t","a">>]

\* the keys of water_quality_params, lower-cased, of each cleaning script
water_quality_params_etl ==
    {<<"p","h">>, <<"d","o">>,
     <<"d","i","s","s","o","l","v","e","d","_","o","x","y","g","e","n">>,
     <<"t","e","m","p","e","r","a","t","u","r","e">>, <<"t","e","m","p">>,
     <<"t","u","r","b","i","d","i","t","y">>, <<"n","i","t","r","a","t","e">>,
     <<"p","h","o","s","p","h","a","t","e">>,
     <<"c","o","n","d","u","c","t","i","v","i","t","y">>, <<"t","d","s">>,
     <<"e","_","c","o","l","i">>, <<"b","a","c","t","e","r","i","a">>,
     <<"c","h","l","o","r","i","d","e">>, <<"s","u","l","f","a","t","e">>,
     <<"a","l","k","a","l","i","n","i","t","y">>,
     <<"h","a","r","d","n","e","s","s">>}
water_quality_params_cleaner ==
    {<<"p","h">>, <<"d","o">>,
     <<"d","i","s","s","o","l","v","e","d","_","o","x","y","g","e","n">>,
     <<"t","e","m","p","e","r","a","t","u","r","e">>, <<"t","e","m","p">>,
     <<"t","u","r","b","i","d","i","t","y">>, <<"n","i","t","r","a","t","e">>,
     <<"p","h","o","s","p","h","a","t","e">>,
     <<"c","o","n","d","u","c","t","i","v","i","t","y">>, <<"t","d","s">>}

\* head(5) of the sample values of an unnamed column
SampleHead == 5
\* len(non_null_values) > 10 before a column is scanned for outliers
MinOutlierSample == 10

----------------------------------------------------------------------------
(* Data frames: [cols, dtypes, rows] *)

InSeq(x, s) == \E k \in 1..Len(s) : s[k] = x

\* the increasing enumeration of the members of S among 1..n
RECURSIVE IdxSeq(_, _)
IdxSeq(S, n) == IF n = 0 THEN <<>>
                ELSE IF n \in S THEN Append(IdxSeq(S, n - 1), n) ELSE IdxSeq(S, n - 1)

Pick(s, S) == LET ix == IdxSeq(S, Len(s)) IN [k \in 1..Len(ix) |-> s[ix[k]]]

Column(df, c) == [r \in 1..Len(df.rows) |-> df.rows[r][c]]

\* dtype pandas infers for a column read from a sheet
InferDtype(cells) ==
    IF \A k \in 1..Len(cells) : cells[k].k \in {"null", "num"} THEN "float64" ELSE "object"

IsNumericDtype(d) == d = "float64"

HasDuplicateNames(names) ==
    \E a, b \in 1..Len(names) : a # b /\ names[a] = names[b]

IsUniqueName(names, c) == \A b \in 1..Len(names) : names[b] = names[c] => b = c

\* step 1: df.drop(columns=[col for col in df.columns if df[col].isna().all()])
DropEmptyColumns(df) ==
    LET keep == {c \in 1..Len(df.cols) : ~ \A r \in 1..Len(df.rows) : IsNa(df.rows[r][c])}
    IN  [cols |-> Pick(df.cols, keep),
         dtypes |-> Pick(df.dtypes, keep),
         rows |-> [r \in 1..Len(df.rows) |-> Pick(df.rows[r], keep)]]

\* df.columns.get_loc(col), 0-based, of a name that occurs once
get_loc(names, col) == (CHOOSE c \in 1..Len(names) : names[c] = col) - 1

\* df[col].dropna().head(5).tolist()
sample_values(df, c) ==
    LET nn == {r \in 1..Len(df.rows) : ~ IsNa(df.rows[r][c])}
        ix == IdxSeq(nn, Len(df.rows))
    IN  [k \in 1..(IF Len(ix) < SampleHead THEN Len(ix) ELSE SampleHead) |-> df.rows[ix[k]][c]]

AnySampleContains(df, c, kw) ==
    LET sv == sample_values(df, c)
    IN  \E k \in 1..Len(sv) : Contains(kw, Lower(CellText(sv[k])))

\* the new name of one unnamed column (streamwatch_etl.py: content, then position)
UnnamedName_etl(df, col) ==
    LET col_index == get_loc(df.cols, col)
    IN  IF AnySampleContains(df, col_index + 1, <<"s","i","t","e">>) THEN Name.Site_ID
        ELSE IF AnySampleContains(df, col_index + 1, <<"d","a","t","e">>) THEN Name.Date
        ELSE IF col_index = 0 THEN Name.Site_ID
        ELSE IF col_index = 1 THEN Name.Date
        ELSE Name.Column_prefix \o IntText(col_index)

\* the new name of one unnamed column (data_cleaner.py: position only)
UnnamedName_cleaner(df, col) ==
    LET col_index == get_loc(df.cols, col)
    IN  IF col_index = 0 THEN Name.Site_ID
        ELSE IF col_index = 1 THEN Name.Date
        ELSE Name.Column_prefix \o IntText(col_index)

RenameColumn(df, col, new) ==
    [df EXCEPT !.cols = [c \in 1..Len(df.cols) |-> IF df.cols[c] = col THEN new ELSE df.cols[c]]]

\* step 2: the loop over unnamed_cols, each renamed in the frame the earlier
\* renames produced
RECURSIVE RenameUnnamed(_, _, _)
RenameUnnamed(df, unnamed_cols, variant) ==
    IF unnamed_cols = <<>> THEN df
    ELSE LET col == Head(unnamed_cols)
             new == IF variant = "etl" THEN UnnamedName_etl(df, col)
                    ELSE UnnamedName_cleaner(df, col)
         IN  RenameUnnamed(RenameColumn(df, col, new), Tail(unnamed_cols), variant)

HandleUnnamed(df, variant) ==
    LET un == {c \in 1..Len(df.cols) : Contains(<<"U","n","n","a","m","e","d">>, df.cols[c])}
    IN  RenameUnnamed(df, Pick(df.cols, un), variant)

\* the replace chain applied to one header
clean_name_common(col) ==
    LET a == Strip(col)
        b == Replace(Replace(Replace(a, " ", <<"_">>), "(", <<>>), ")", <<>>)
        c == Replace(Replace(Replace(b, "[", <<>>), "]", <<>>), "%", <<"p","c","t">>)
        d == Replace(Replace(c, "°", <<"d","e","g">>), "µ", <<"u">>)
    IN  Replace(Replace(d, "/", <<"_","p","e","r","_">>), "-", <<"_">>)

clean_name(col, variant) ==
    IF variant = "etl"
    THEN Replace(Replace(clean_name_common(col), "&", <<"a","n","d">>), "+", <<"p","l","u","s">>)
    ELSE clean_name_common(col)

\* "Handle duplicate names": a name already in new_columns gets the suffix _2
dedup_name(clean, new_columns) ==
    IF InSeq(clean, new_columns) THEN clean \o <<"_","2">> ELSE clean

RECURSIVE StandardizeFrom(_, _, _)
StandardizeFrom(names, new_columns, variant) ==
    IF names = <<>> THEN new_columns
    ELSE StandardizeFrom(Tail(names),
                         Append(new_columns, dedup_name(clean_name(Head(names), variant), new_columns)),
                         variant)

\* step 3: clean_column_names(df) / the inline loop of data_cleaner.py
clean_column_names(names, variant) == StandardizeFrom(names, <<>>, variant)

\* step 4: df.drop_duplicates() keeps the first of each group of equal rows
DropDuplicateRows(df) ==
    LET keep == {r \in 1..Len(df.rows) : ~ \E q \in 1..(r - 1) : df.rows[q] = df.rows[r]}
    IN  [df EXCEPT !.rows = Pick(df.rows, keep)]

----------------------------------------------------------------------------
(* clean_sheet_data: coercion and quality flags *)

NameMatchesParam(name, params) == \E p \in params : Contains(p, Lower(name))

\* pd.to_numeric(errors='coerce') on one cell
to_numeric(c) ==
    IF c.k = "num" THEN c
    ELSE IF c.k = "bool" THEN Num(c.v)
    ELSE IF c.k = "str" /\ CanParseFloat(c.s) THEN Num(ParseFloat(c.s))
    ELSE Null

\* text pandas parses as a date: here the ISO form dddd-dd-dd
IsDateText(s) ==
    LET t == Strip(s)
    IN  /\ Len(t) = 10
        /\ t[5] = "-" /\ t[8] = "-"
        /\ \A k \in {1, 2, 3, 4, 6, 7, 9, 10} : IsCharOf("digit", t[k])

\* pd.to_datetime(errors='coerce') on one cell: a number is read as an offset
\* from the epoch, text is parsed or becomes NaT
to_datetime(c) ==
    IF c.k = "date" THEN c
    ELSE IF c.k = "num" THEN DateVal(IntText(c.v))
    ELSE IF c.k = "str" /\ IsDateText(c.s) THEN DateVal(Strip(c.s))
    ELSE Null

MapColumn(df, c, F(_), dtype) ==
    [df EXCEPT !.rows = [r \in 1..Len(df.rows) |->
                            [df.rows[r] EXCEPT ![c] = F(df.rows[r][c])]],
               !.dtypes = [df.dtypes EXCEPT ![c] = dtype]]

\* step 5: every column whose name contains a parameter key is converted; with
\* a duplicated name df[col] is a frame, to_numeric raises and the except passes
RECURSIVE ConvertNumericFrom(_, _, _)
ConvertNumericFrom(df, c, params) ==
    IF c > Len(df.cols) THEN df
    ELSE IF NameMatchesParam(df.cols[c], params) /\ IsUniqueName(df.cols, c)
         THEN ConvertNumericFrom(MapColumn(df, c, to_numeric, "float64"), c + 1, params)
         ELSE ConvertNumericFrom(df, c + 1, params)

ConvertNumeric(df, variant) ==
    ConvertNumericFrom(df, 1, IF variant = "etl" THEN water_quality_params_etl
                              ELSE water_quality_params_cleaner)

\* step 6 of streamwatch_etl.py
IsDateColumn(name) == Contains(<<"d","a","t","e">>, Lower(name)) \/ Contains(<<"t","i","m","e">>, Lower(name))

RECURSIVE ConvertDatesFrom(_, _)
ConvertDatesFrom(df, c) ==
    IF c > Len(df.cols) THEN df
    ELSE IF IsDateColumn(df.cols[c]) /\ IsUniqueName(df.cols, c)
         THEN ConvertDatesFrom(MapColumn(df, c, to_datetime, "datetime64"), c + 1)
         ELSE ConvertDatesFrom(df, c + 1)

ConvertDates(df) == ConvertDatesFrom(df, 1)

\* the coercions steps 5 and 6 apply to each column
CoercionRoles(names, variant) ==
    [c \in 1..Len(names) |->
        (IF /\ NameMatchesParam(names[c], IF variant = "etl" THEN water_quality_params_etl
                                           ELSE water_quality_params_cleaner)
            /\ IsUniqueName(names, c)
         THEN {"parameter"} ELSE {})
        \cup
        (IF variant = "etl" /\ IsDateColumn(names[c]) /\ IsUniqueName(names, c)
         THEN {"date"} ELSE {})]

AppendColumn(df, name, dtype, cells) ==
    [cols |-> Append(df.cols, name),
     dtypes |-> Append(df.dtypes, dtype),
     rows |-> [r \in 1..Len(df.rows) |-> Append(df.rows[r], cells[r])]]

\* step 6 of data_cleaner.py: a <col>_missing_flag column for every numeric
\* column of the frame as it was when the loop started
RECURSIVE AddMissingFlagColumns(_, _, _)
AddMissingFlagColumns(df, c, n) ==
    IF c > n THEN df
    ELSE LET flag_col == df.cols[c] \o Name.suffix_missing_flag
         IN  IF IsNumericDtype(df.dtypes[c]) /\ ~ InSeq(flag_col, df.cols)
             THEN AddMissingFlagColumns(
                      AppendColumn(df, flag_col, "bool",
                                   [r \in 1..Len(df.rows) |-> Bool(IsNa(df.rows[r][c]))]),
                      c + 1, n)
             ELSE AddMissingFlagColumns(df, c + 1, n)

\* df['data_quality_flag'] = 'clean'
SetFlagColumn(df) ==
    IF InSeq(Name.data_quality_flag, df.cols)
    THEN [df EXCEPT !.rows = [r \in 1..Len(df.rows) |->
                [c \in 1..Len(df.cols) |->
                    IF df.cols[c] = Name.data_quality_flag THEN Str(Text.clean) ELSE df.rows[r][c]]],
                    !.dtypes = [c \in 1..Len(df.cols) |->
                    IF df.cols[c] = Name.data_quality_flag THEN "object" ELSE df.dtypes[c]]]
    ELSE AppendColumn(df, Name.data_quality_flag, "object",
                      [r \in 1..Len(df.rows) |-> Str(Text.clean)])

FlagIndex(df) == CHOOSE c \in 1..Len(df.cols) : df.cols[c] = Name.data_quality_flag

\* row.isna().sum()
NullCount(row) == Cardinality({c \in 1..Len(row) : IsNa(row[c])})

\* missing_pct = row.isna().sum() / len(row);  missing_pct > 0.5
ExceedsMissingThreshold(row) == 2 * NullCount(row) > Len(row)

SetFlag(df, R, flag) ==
    LET f == FlagIndex(df)
    IN  [df EXCEPT !.rows = [r \in 1..Len(df.rows) |->
                IF r \in R THEN [df.rows[r] EXCEPT ![f] = Str(flag)] ELSE df.rows[r]]]

\* the loop "Flag rows with too many missing values"
FlagHighMissing(df) ==
    SetFlag(df, {r \in 1..Len(df.rows) : ExceedsMissingThreshold(df.rows[r])}, Text.high_missing)

RECURSIVE Insert(_, _)
Insert(x, s) == IF s = <<>> THEN <<x>>
                ELSE IF x <= Head(s) THEN <<x>> \o s
                ELSE <<Head(s)>> \o Insert(x, Tail(s))

RECURSIVE Sorted(_)
Sorted(s) == IF s = <<>> THEN <<>> ELSE Insert(Head(s), Sorted(Tail(s)))

\* 4 * Series.quantile(q4 / 4): linear interpolation between the order
\* statistics around position (n - 1) * q
Quantile4(values, q4) ==
    LET s == Sorted(values)
        pos == q4 * (Len(s) - 1)
        lo == pos \div 4
        fr == pos % 4
    IN  IF fr = 0 THEN 4 * s[lo + 1]
        ELSE 4 * s[lo + 1] + fr * (s[lo + 2] - s[lo + 1])

NonNullValues(df, c) ==
    LET nn == {r \in 1..Len(df.rows) : ~ IsNa(df.rows[r][c])}
        ix == IdxSeq(nn, Len(df.rows))
    IN  [k \in 1..Len(ix) |-> df.rows[ix[k]][c].v]

\* (v < Q1 - 1.5*IQR) | (v > Q3 + 1.5*IQR), with a = 4*Q1 and b = 4*Q3
OutsideFences(v, a, b) == 8 * v < 5 * a - 3 * b \/ 8 * v > 5 * b - 3 * a

\* OutlierRows, were a column of any size scanned
OutlierRows_NoMinimum(df, c) ==
    LET nnv == NonNullValues(df, c)
    IN  IF Len(nnv) > 0
        THEN LET a == Quantile4(nnv, 1)
                 b == Quantile4(nnv, 3)
             IN  {r \in 1..Len(df.rows) :
                    ~ IsNa(df.rows[r][c]) /\ OutsideFences(df.rows[r][c].v, a, b)}
        ELSE {}

\* the rows df[col].isin(outliers) selects for one numeric column
OutlierRows(df, c) ==
    LET nnv == NonNullValues(df, c)
    IN  IF Len(nnv) > MinOutlierSample
        THEN LET a == Quantile4(nnv, 1)
                 b == Quantile4(nnv, 3)
             IN  {r \in 1..Len(df.rows) :
                    ~ IsNa(df.rows[r][c]) /\ OutsideFences(df.rows[r][c].v, a, b)}
        ELSE {}

\* SetFlag that leaves a high_missing flag in place
SetFlag_KeepHighMissing(df, R, flag) ==
    LET f == FlagIndex(df)
    IN  [df EXCEPT !.rows = [r \in 1..Len(df.rows) |->
                IF r \in R /\ df.rows[r][f] # Str(Text.high_missing)
                THEN [df.rows[r] EXCEPT ![f] = Str(flag)] ELSE df.rows[r]]]

RECURSIVE FlagOutliersFrom_KeepHighMissing(_, _)
FlagOutliersFrom_KeepHighMissing(df, c) ==
    IF c > Len(df.cols) THEN df
    ELSE IF IsNumericDtype(df.dtypes[c])
         THEN FlagOutliersFrom_KeepHighMissing(
                  SetFlag_KeepHighMissing(df, OutlierRows(df, c), Text.potential_outlier), c + 1)
         ELSE FlagOutliersFrom_KeepHighMissing(df, c + 1)

\* the outlier pass, were high_missing given precedence
FlagPotentialOutliers_KeepHighMissing(df) == FlagOutliersFrom_KeepHighMissing(df, 1)

\* the loop "Flag potential outliers in numeric columns"
RECURSIVE FlagOutliersFrom(_, _)
FlagOutliersFrom(df, c) ==
    IF c > Len(df.cols) THEN df
    ELSE IF IsNumericDtype(df.dtypes[c])
         THEN FlagOutliersFrom(SetFlag(df, OutlierRows(df, c), Text.potential_outlier), c + 1)
         ELSE FlagOutliersFrom(df, c + 1)

FlagPotentialOutliers(df) == FlagOutliersFrom(df, 1)

----------------------------------------------------------------------------
(* Sheets given to clean_sheet_data *)

Frame(names, rws) ==
    [cols |-> names,
     dtypes |-> [c \in 1..Len(names) |-> InferDtype([r \in 1..Len(rws) |-> rws[r][c]])],
     rows |-> rws]

\* a monitoring sheet: site, date, one analyte, a count and a note
MonitoringCols == <<Header.Site, Header.Sample_Date, Header.pH, Header.Count, Header.Notes>>

BaseRow(i) == <<Str(Value.AC1), Str(Value.date), Num(((i - 1) % 4) + 1), Num(i), Str(Value.x)>>

\* the rows a sheet may hold besides the base rows: a regular row, a row with
\* an extreme analyte, rows with missing cells and rows whose date or analyte
\* is text that does not parse
FreeRows ==
    {<<Str(Value.ac1_sp), Str(Value.date), Num(2), Num(5), Str(Value.x)>>,
     <<Str(Value.ac1_sp), Str(Value.date), Num(100), Num(5), Str(Value.x)>>,
     <<Null, Str(Value.bad), Num(100), Null, Null>>,
     <<Null, Str(Value.bad), Str(Value.bad), Num(5), Str(Value.x)>>,
     <<Null, Str(Value.date), Str(Value.bad), Null, Null>>,
     <<Str(Value.ac1_sp), Str(Value.date), Str(Value.bad), Num(5), Str(Value.x)>>,
     <<Null, Str(Value.date), Num(2), Null, Null>>,
     <<Null, Str(Value.date), Null, Null, Str(Value.x)>>}

MonitoringSheets ==
    {Frame(MonitoringCols, [i \in 1..nb |-> BaseRow(i)] \o free) :
        nb \in {0, BaseRows},
        free \in UNION {[1..n -> FreeRows] : n \in 0..MaxFree}}

\* sheets that differ in their headers; the header of position pos that the
\* reader found empty is named "Unnamed: <pos - 1>"
HeaderPool == <<Header.Temp_C, Header.Temp_C_us, Header.Temp_C_dash, Header.Unnamed_prefix, Header.Sample_Time,
                Header.Temp_Date, Header.Site>>

HeaderAt(p, pos) == IF HeaderPool[p] = Header.Unnamed_prefix THEN Header.Unnamed_prefix \o IntText(pos - 1)
                    ELSE HeaderPool[p]

HeaderRows(n, e) ==
    <<[c \in 1..n |-> IF c = e THEN Null ELSE Num(7)],
      [c \in 1..n |-> IF c = e THEN Null ELSE Str(Value.bad)]>>

HeaderSheets ==
    {Frame([c \in 1..Len(h) |-> HeaderAt(h[c], c)], HeaderRows(Len(h), e)) :
        h \in UNION {{f \in [1..n -> 1..Len(HeaderPool)] :
                        \A a, b \in 1..n : a # b => f[a] # f[b]} : n \in 1..MaxCols},
        e \in {0, 1, 2}}

\* the column of the outlier example: [1, 2, 3, 4, 100]
\* and the same column in a sheet whose row with 100 is otherwise empty
ExampleSheets ==
    {Frame(<<Header.pH>>, <<<<Num(1)>>, <<Num(2)>>, <<Num(3)>>, <<Num(4)>>, <<Num(100)>>>>),
     Frame(<<Header.pH, Header.Site, Header.Notes, Header.Count>>,
           <<<<Num(1), Str(Value.AC1), Str(Value.x), Num(5)>>,
             <<Num(2), Str(Value.AC1), Str(Value.x), Num(5)>>,
             <<Num(3), Str(Value.AC1), Str(Value.x), Num(5)>>,
             <<Num(4), Str(Value.AC1), Str(Value.x), Num(5)>>,
             <<Num(100), Null, Null, Null>>>>)}

CleanInputs == MonitoringSheets \cup HeaderSheets \cup ExampleSheets

----------------------------------------------------------------------------
(* clean_sheet_data as a state machine: prog is the script, pc the step reached *)

Df == [cols |-> cols, dtypes |-> dtypes, rows |-> rows]

SetDf(df) == /\ cols' = df.cols
             /\ dtypes' = df.dtypes
             /\ rows' = df.rows

InitClean ==
    /\ prog \in {"etl", "cleaner"}
    /\ pc = "read"
    /\ \E df \in CleanInputs : /\ cols = df.cols
                               /\ dtypes = df.dtypes
                               /\ rows = df.rows
    /\ sheet = <<>>
    /\ cur = 0
    /\ db = <<>>
    /\ view = <<>>
    /\ imported = 0
    /\ role = <<>>
    /\ run = 1

Cleaning == prog \in {"etl", "cleaner"}

\* steps 1 and 2
DropAndRename ==
    /\ Cleaning /\ pc = "read"
    /\ SetDf(HandleUnnamed(DropEmptyColumns(Df), prog))
    /\ pc' = "renamed"
    /\ UNCHANGED <<prog, run, sheet, cur, db, view, imported, role>>

\* step 3
StandardizeNames ==
    /\ Cleaning /\ pc = "renamed"
    /\ cols' = clean_column_names(cols, prog)
    /\ pc' = "named"
    /\ UNCHANGED <<prog, run, sheet, dtypes, rows, cur, db, view, imported, role>>

\* step 4
DropDuplicates ==
    /\ Cleaning /\ pc = "named"
    /\ SetDf(DropDuplicateRows(Df))
    /\ pc' = "deduped"
    /\ UNCHANGED <<prog, run, sheet, cur, db, view, imported, role>>

\* steps 5 and 6; data_cleaner.py reads df[col].dtype of every column in its
\* step 6, which raises when a name is duplicated
CoerceTypes ==
    /\ Cleaning /\ pc = "deduped"
    /\ IF prog = "etl"
       THEN /\ SetDf(ConvertDates(ConvertNumeric(Df, prog)))
            /\ pc' = "coerced"
       ELSE IF HasDuplicateNames(cols)
            THEN /\ SetDf(ConvertNumeric(Df, prog))
                 /\ pc' = "raised"
            ELSE /\ SetDf(AddMissingFlagColumns(ConvertNumeric(Df, prog), 1, Len(cols)))
                 /\ pc' = "coerced"
    /\ role' = CoercionRoles(cols, prog)
    /\ UNCHANGED <<prog, run, sheet, cur, db, view, imported>>

\* step 7, first half; it ends data_cleaner.py's clean_sheet_data
FlagMissing ==
    /\ Cleaning /\ pc = "coerced"
    /\ SetDf(FlagHighMissing(SetFlagColumn(Df)))
    /\ pc' = IF prog = "etl" THEN "flagged" ELSE "done"
    /\ UNCHANGED <<prog, run, sheet, cur, db, view, imported, role>>

\* step 7, second half (streamwatch_etl.py); df[col].dtype raises when a name
\* is duplicated
FlagOutliers ==
    /\ prog = "etl" /\ pc = "flagged"
    /\ IF HasDuplicateNames(cols)
       THEN /\ pc' = "raised"
            /\ UNCHANGED <<cols, dtypes, rows>>
       ELSE /\ SetDf(FlagPotentialOutliers(Df))
            /\ pc' = "done"
    /\ UNCHANGED <<prog, run, sheet, cur, db, view, imported, role>>

NextClean ==
    \/ DropAndRename
    \/ StandardizeNames
    \/ DropDuplicates
    \/ CoerceTypes
    \/ FlagMissing
    \/ FlagOutliers

SpecClean == InitClean /\ [][NextClean]_vars

----------------------------------------------------------------------------
(* Import scripts: reading a cell into a field *)

\* str(cell).strip() if pd.notna(cell) else <default>
StripOr(cell, dflt) == IF IsNa(cell) THEN dflt ELSE Strip(CellText(cell))
\* str(cell) if pd.notna(cell) else ''
TextOr(cell) == IF IsNa(cell) THEN <<>> ELSE CellText(cell)
\* float(cell) / int(cell) if pd.notna(cell) else 0, and 0 on ValueError
NumberOr0(cell) ==
    IF IsNa(cell) THEN 0
    ELSE IF cell.k = "num" THEN cell.v
    ELSE IF cell.k = "str" /\ CanParseFloat(cell.s) THEN ParseFloat(cell.s)
    ELSE 0

\* pd.notna(cell) and str(cell).strip() != ''
NonEmptyCell(cell) == ~IsNa(cell) /\ Strip(CellText(cell)) # <<>>
\* "Skip empty rows": pd.isna(row.iloc[0]) or str(row.iloc[0]).strip() == ''
SkipRow(row) == ~NonEmptyCell(row[1])

\* how each field of a record is read from the cell of its column
FieldKind(f) ==
    IF f \in {"sample_date", "measurement_date", "collection_date", "processing_date",
              "assignment_date", "training_date", "calibration_date",
              "next_calibration"} THEN "text"
    ELSE IF f \in {"count", "abundance", "dominance", "value", "result"} THEN "number"
    ELSE "strip"

ReadField(f, cell, dflt) ==
    IF FieldKind(f) = "text" THEN TextOr(cell)
    ELSE IF FieldKind(f) = "number" THEN NumberOr0(cell)
    ELSE StripOr(cell, dflt)

\* index of the first cell of the row that satisfies Test, 0 when none does
FirstCell(row, Test(_)) ==
    IF \E i \in 1..Len(row) : Test(row[i])
    THEN CHOOSE i \in 1..Len(row) : Test(row[i]) /\ \A j \in 1..(i - 1) : ~Test(row[j])
    ELSE 0

\* "looks like a site code": len(potential_site) <= 4 and potential_site.isalnum()
LooksLikeSiteCode(cell) ==
    /\ NonEmptyCell(cell)
    /\ Len(Strip(CellText(cell))) <= 4
    /\ IsAlnum(Strip(CellText(cell)))

----------------------------------------------------------------------------
(* Import scripts: the if/elif chain over the lower-cased header *)

Branch_batsites(col_str) ==
    IF Contains(<<"s","i","t","e">>, col_str) \/ Contains(<<"s","t","a","t","i","o","n">>, col_str) THEN "site_id"
    ELSE IF Contains(<<"d","a","t","e">>, col_str) THEN "sample_date"
    ELSE IF \/ Contains(<<"b","u","g">>, col_str) \/ Contains(<<"t","a","x","o","n">>, col_str)
            \/ Contains(<<"s","p","e","c","i","e","s">>, col_str) \/ Contains(<<"f","a","m","i","l","y">>, col_str) THEN "taxon"
    ELSE IF \/ Contains(<<"c","o","u","n","t">>, col_str) \/ Contains(<<"a","m","o","u","n","t">>, col_str)
            \/ Contains(<<"n","u","m","b","e","r">>, col_str) THEN "count"
    ELSE IF Contains(<<"a","b","u","n","d","a","n","c","e">>, col_str) THEN "abundance"
    ELSE IF Contains(<<"d","o","m","i","n","a","n","c","e">>, col_str) THEN "dominance"
    ELSE "none"

Branch_wqx(col_str) ==
    IF \/ Contains(<<"s","i","t","e">>, col_str) \/ Contains(<<"s","t","a","t","i","o","n">>, col_str)
       \/ Contains(<<"l","o","c","a","t","i","o","n">>, col_str) THEN "site_id"
    ELSE IF Contains(<<"d","a","t","e">>, col_str) THEN "measurement_date"
    ELSE IF \/ Contains(<<"p","a","r","a","m","e","t","e","r">>, col_str) \/ Contains(<<"a","n","a","l","y","t","e">>, col_str)
            \/ Contains(<<"c","o","n","s","t","i","t","u","e","n","t">>, col_str) THEN "parameter"
    ELSE IF \/ Contains(<<"v","a","l","u","e">>, col_str) \/ Contains(<<"r","e","s","u","l","t">>, col_str)
            \/ Contains(<<"c","o","n","c","e","n","t","r","a","t","i","o","n">>, col_str) THEN "value"
    ELSE IF Contains(<<"u","n","i","t">>, col_str) THEN "unit"
    ELSE IF Contains(<<"m","e","t","h","o","d">>, col_str) THEN "method"
    ELSE IF Contains(<<"f","l","a","g">>, col_str) \/ Contains(<<"q","u","a","l","i","t","y">>, col_str) THEN "quality_flag"
    ELSE IF Contains(<<"n","o","t","e">>, col_str) \/ Contains(<<"c","o","m","m","e","n","t">>, col_str) THEN "notes"
    ELSE "none"

Branch_bacterial(col_str) ==
    IF \/ Contains(<<"s","i","t","e">>, col_str) \/ Contains(<<"s","t","a","t","i","o","n">>, col_str)
       \/ Contains(<<"l","o","c","a","t","i","o","n">>, col_str) THEN "site_id"
    ELSE IF Contains(<<"d","a","t","e">>, col_str) THEN "sample_date"
    ELSE IF \/ Contains(<<"c","o","l","i">>, col_str) \/ Contains(<<"m","p","n">>, col_str)
            \/ Contains(<<"r","e","s","u","l","t">>, col_str) THEN "result"
    ELSE IF Contains(<<"m","e","t","h","o","d">>, col_str) THEN "method"
    ELSE IF Contains(<<"f","l","a","g">>, col_str) \/ Contains(<<"q","u","a","l","i","t","y">>, col_str) THEN "quality_flag"
    ELSE IF Contains(<<"n","o","t","e">>, col_str) \/ Contains(<<"c","o","m","m","e","n","t">>, col_str) THEN "notes"
    ELSE "none"

Branch_sample_dates(col_str) ==
    IF Contains(<<"s","i","t","e">>, col_str) THEN "site_id"
    ELSE IF Contains(<<"d","a","t","e">>, col_str) /\ Contains(<<"c","o","l","l","e","c","t">>, col_str) THEN "collection_date"
    ELSE IF Contains(<<"d","a","t","e">>, col_str) /\ Contains(<<"p","r","o","c","e","s","s">>, col_str) THEN "processing_date"
    ELSE IF Contains(<<"t","y","p","e">>, col_str) THEN "sample_type"
    ELSE IF Contains(<<"s","t","a","t","u","s">>, col_str) \/ Contains(<<"c","o","n","d","i","t","i","o","n">>, col_str) THEN "status"
    ELSE IF Contains(<<"n","o","t","e">>, col_str) \/ Contains(<<"c","o","m","m","e","n","t">>, col_str) THEN "notes"
    ELSE "none"

Branch_assignments(col_str) ==
    IF Contains(<<"v","o","l","u","n","t","e","e","r">>, col_str) /\ Contains(<<"i","d">>, col_str) THEN "volunteer_id"
    ELSE IF Contains(<<"s","i","t","e">>, col_str) /\ Contains(<<"i","d">>, col_str) THEN "site_id"
    ELSE IF Contains(<<"d","a","t","e">>, col_str) THEN "assignment_date"
    ELSE IF Contains(<<"t","y","p","e">>, col_str) THEN "assignment_type"
    ELSE IF Contains(<<"s","t","a","t","u","s">>, col_str) THEN "status"
    ELSE IF Contains(<<"n","o","t","e">>, col_str) \/ Contains(<<"c","o","m","m","e","n","t">>, col_str) THEN "notes"
    ELSE "none"

\* import_volunteer_tracking, volunteer sheet
Branch_volunteers(col_str) ==
    IF Contains(<<"i","d">>, col_str) /\ Contains(<<"v","o","l","u","n","t","e","e","r">>, col_str) THEN "volunteer_id"
    ELSE IF Contains(<<"f","i","r","s","t">>, col_str) /\ Contains(<<"n","a","m","e">>, col_str) THEN "first_name"
    ELSE IF Contains(<<"l","a","s","t">>, col_str) /\ Contains(<<"n","a","m","e">>, col_str) THEN "last_name"
    ELSE IF Contains(<<"e","m","a","i","l">>, col_str) THEN "email"
    ELSE IF Contains(<<"p","h","o","n","e">>, col_str) THEN "phone"
    ELSE IF Contains(<<"t","e","a","m">>, col_str) THEN "team"
    ELSE IF Contains(<<"t","r","a","i","n","i","n","g">>, col_str) /\ Contains(<<"d","a","t","e">>, col_str) THEN "training_date"
    ELSE IF Contains(<<"a","c","t","i","v","e">>, col_str) \/ Contains(<<"s","t","a","t","u","s">>, col_str) THEN "active"
    ELSE "none"

\* import_cat_meter_data: the elif chain over the lower-cased header
Branch_equipment(col_str) ==
    IF Contains(<<"m","a","k","e">>, col_str) \/ Contains(<<"b","r","a","n","d">>, col_str)
    THEN "make"
    ELSE IF Contains(<<"m","o","d","e","l">>, col_str) THEN "model"
    ELSE IF Contains(<<"s","e","r","i","a","l">>, col_str) THEN "serial_number"
    ELSE IF Contains(<<"c","a","l","i","b","r","a","t">>, col_str)
            /\ Contains(<<"d","a","t","e">>, col_str) THEN "calibration_date"
    ELSE IF Contains(<<"n","e","x","t">>, col_str) \/ Contains(<<"d","u","e">>, col_str)
    THEN "next_calibration"
    ELSE IF Contains(<<"s","t","a","t","u","s">>, col_str)
            \/ Contains(<<"c","o","n","d","i","t","i","o","n">>, col_str) THEN "status"
    ELSE IF Contains(<<"n","o","t","e">>, col_str)
            \/ Contains(<<"c","o","m","m","e","n","t">>, col_str) THEN "notes"
    ELSE "none"

\* import_bact_hab_data, algal sheet
Branch_algal(col_str) ==
    IF \/ Contains(<<"s","i","t","e">>, col_str) \/ Contains(<<"s","t","a","t","i","o","n">>, col_str)
       \/ Contains(<<"l","o","c","a","t","i","o","n">>, col_str) THEN "site_id"
    ELSE IF Contains(<<"d","a","t","e">>, col_str) THEN "sample_date"
    ELSE IF \/ Contains(<<"p","h","y","c","o">>, col_str) \/ Contains(<<"a","l","g","a","l">>, col_str)
            \/ Contains(<<"b","l","o","o","m">>, col_str) \/ Contains(<<"r","e","s","u","l","t">>, col_str)
    THEN "value"
    ELSE IF Contains(<<"s","t","a","t","u","s">>, col_str)
            \/ Contains(<<"c","o","n","d","i","t","i","o","n">>, col_str) THEN "bloom_status"
    ELSE IF Contains(<<"f","l","a","g">>, col_str) \/ Contains(<<"q","u","a","l","i","t","y">>, col_str) THEN "quality_flag"
    ELSE IF Contains(<<"n","o","t","e">>, col_str) \/ Contains(<<"c","o","m","m","e","n","t">>, col_str) THEN "notes"
    ELSE "none"

\* import_bact_hab_data, sheet that is neither bacterial nor algal
Branch_general(col_str) ==
    IF \/ Contains(<<"s","i","t","e">>, col_str) \/ Contains(<<"s","t","a","t","i","o","n">>, col_str)
       \/ Contains(<<"l","o","c","a","t","i","o","n">>, col_str) THEN "site_id"
    ELSE IF Contains(<<"d","a","t","e">>, col_str) THEN "measurement_date"
    ELSE IF Contains(<<"p","a","r","a","m","e","t","e","r">>, col_str)
            \/ Contains(<<"a","n","a","l","y","t","e">>, col_str) THEN "parameter"
    ELSE IF \/ Contains(<<"v","a","l","u","e">>, col_str) \/ Contains(<<"r","e","s","u","l","t">>, col_str)
            \/ Contains(<<"c","o","n","c","e","n","t","r","a","t","i","o","n">>, col_str) THEN "value"
    ELSE IF Contains(<<"u","n","i","t">>, col_str) THEN "unit"
    ELSE IF Contains(<<"m","e","t","h","o","d">>, col_str) THEN "method"
    ELSE IF Contains(<<"f","l","a","g">>, col_str) \/ Contains(<<"q","u","a","l","i","t","y">>, col_str) THEN "quality_flag"
    ELSE IF Contains(<<"n","o","t","e">>, col_str) \/ Contains(<<"c","o","m","m","e","n","t">>, col_str) THEN "notes"
    ELSE "none"

Branch(script, col_str) ==
    CASE script = "batsites" -> Branch_batsites(col_str)
      [] script = "wqx" -> Branch_wqx(col_str)
      [] script = "bact_hab" -> Branch_bacterial(col_str)
      [] script = "sample_dates" -> Branch_sample_dates(col_str)
      [] script = "volunteer" -> Branch_assignments(col_str)
      [] script = "volunteer_info" -> Branch_volunteers(col_str)
      [] script = "cat_meter" -> Branch_equipment(col_str)
      [] script = "bact_hab_algal" -> Branch_algal(col_str)
      [] script = "bact_hab_general" -> Branch_general(col_str)

\* the values the fields hold before the columns are scanned
Defaults(script) ==
    CASE script = "batsites" ->
            [site_id |-> <<>>, sample_date |-> <<>>, taxon |-> <<>>, count |-> 0,
             abundance |-> 0, dominance |-> 0, quality_flag |-> Text.clean]
      [] script = "wqx" ->
            [site_id |-> <<>>, measurement_date |-> <<>>, parameter |-> <<>>, value |-> 0,
             unit |-> <<>>, method |-> <<>>, quality_flag |-> Text.clean, notes |-> <<>>]
      [] script = "bact_hab" ->
            [site_id |-> <<>>, sample_date |-> <<>>, test_type |-> Text.E_coli, result |-> 0,
             unit |-> Text.CFU, method |-> Text.IDEXX, quality_flag |-> Text.clean, notes |-> <<>>]
      [] script = "sample_dates" ->
            [sample_id |-> <<>>, site_id |-> <<>>, collection_date |-> <<>>,
             sample_type |-> Text.Unknown, processing_date |-> <<>>, status |-> Text.Collected,
             notes |-> <<>>]
      [] script = "volunteer" ->
            [volunteer_id |-> <<>>, site_id |-> <<>>, assignment_date |-> <<>>,
             assignment_type |-> Text.Monitoring, status |-> Text.Scheduled, notes |-> <<>>]
      [] script = "volunteer_info" ->
            [volunteer_id |-> <<>>, first_name |-> <<>>, last_name |-> <<>>, email |-> <<>>,
             phone |-> <<>>, team |-> <<>>, active |-> <<"y","e","s">>, training_date |-> <<>>]
      [] script = "cat_meter" ->
            [equipment_id |-> <<>>, equipment_type |-> Text.CAT_Meter, make |-> <<>>,
             model |-> <<>>, serial_number |-> <<>>, calibration_date |-> <<>>,
             next_calibration |-> <<>>, status |-> Text.Active, notes |-> <<>>]
      [] script = "bact_hab_algal" ->
            [site_id |-> <<>>, sample_date |-> <<>>,
             parameter |-> <<"P","h","y","c","o","c","y","a","n","i","n">>, value |-> 0,
             unit |-> <<"μ","g","/","L">>, bloom_status |-> Text.Unknown,
             quality_flag |-> Text.clean, notes |-> <<>>]
      [] script = "bact_hab_general" ->
            [site_id |-> <<>>, measurement_date |-> <<>>, parameter |-> <<>>, value |-> 0,
             unit |-> <<>>, method |-> <<>>, quality_flag |-> Text.clean, notes |-> <<>>]

\* for i, col in enumerate(df.columns): a later column overwrites the field an
\* earlier column of the same branch has set
\* a scan that keeps the value of an earlier column when the cell is null
ScanStep_KeepOnNull(script, rec, f, cell) ==
    IF f = "none" \/ IsNa(cell) THEN rec
    ELSE [rec EXCEPT ![f] = ReadField(f, cell, Defaults(script)[f])]

\* one column of the scan: the branch assigns the field, from the cell or,
\* when the cell is null, the literal of the else part
ScanStep(script, rec, f, cell) ==
    IF f = "none" THEN rec
    ELSE [rec EXCEPT ![f] = ReadField(f, cell, Defaults(script)[f])]

RECURSIVE ScanFrom(_, _, _, _, _)
ScanFrom(script, headers, row, i, rec) ==
    IF i > Len(headers) THEN rec
    ELSE ScanFrom(script, headers, row, i + 1,
                  ScanStep(script, rec, Branch(script, Lower(headers[i])), row[i]))

ScanColumns(script, headers, row) == ScanFrom(script, headers, row, 1, Defaults(script))

\* the field each column's cell was read into by the scan
ScanRoles(script, headers) ==
    [c \in 1..Len(headers) |->
        IF Branch(script, Lower(headers[c])) = "none" THEN {}
        ELSE {Branch(script, Lower(headers[c]))}]

AddRole(roles, c, f) == IF c = 0 THEN roles ELSE [roles EXCEPT ![c] = @ \cup {f}]

----------------------------------------------------------------------------
(* Import scripts: one row of the sheet *)

\* import_batsites_data: scan, taxon from the first non-empty cell, site from
\* the first cell that looks like a site code, then the insert condition
Extract_batsites(headers, row) ==
    LET r0 == ScanColumns("batsites", headers, row)
        t  == IF r0.taxon = <<>> THEN FirstCell(row, NonEmptyCell) ELSE 0
        r1 == IF t # 0 THEN [r0 EXCEPT !.taxon = Strip(CellText(row[t]))] ELSE r0
        s  == IF r1.site_id = <<>> THEN FirstCell(row, LooksLikeSiteCode) ELSE 0
        r2 == IF s # 0 THEN [r1 EXCEPT !.site_id = Strip(CellText(row[s]))] ELSE r1
    IN  [rec |-> r2,
         roles |-> AddRole(AddRole(ScanRoles("batsites", headers), t, "taxon"), s, "site_id"),
         insert |-> r2.site_id # <<>> \/ r2.taxon # <<>> \/ r2.count > 0]

\* keywords of the parameter fallback of import_wqx_data
wqx_parameter_keywords == {<<"p","h">>, <<"d","o">>, <<"t","e","m","p">>, <<"t","u","r","b">>,
<<"n","i","t","r","a","t","e">>, <<"p","h","o","s","p","h","a","t","e">>,
<<"c","h","l","o","r","i","d","e">>}

\* import_wqx_data: scan, then the parameter from the first column that holds
\* a value and whose header looks like a parameter
Extract_wqx(headers, row) ==
    LET r0 == ScanColumns("wqx", headers, row)
        Hit(i) == /\ NonEmptyCell(row[i])
                  /\ \E keyword \in wqx_parameter_keywords : Contains(keyword, Lower(headers[i]))
        p  == IF r0.parameter = <<>> /\ \E i \in 1..Len(headers) : Hit(i)
              THEN CHOOSE i \in 1..Len(headers) : Hit(i) /\ \A j \in 1..(i - 1) : ~Hit(j)
              ELSE 0
        r1 == IF p # 0 THEN [r0 EXCEPT !.parameter = Strip(headers[p]),
                                       !.value = NumberOr0(row[p])]
              ELSE r0
    IN  [rec |-> r1,
         roles |-> AddRole(AddRole(ScanRoles("wqx", headers), p, "parameter"), p, "value"),
         insert |-> r1.site_id # <<>> /\ (r1.parameter # <<>> \/ r1.value > 0)]

\* a record of a bacterial sheet that is inserted whatever its result is
Extract_bacterial_AnyResult(headers, row) ==
    LET r0 == ScanColumns("bact_hab", headers, row)
        s  == IF r0.site_id = <<>> THEN FirstCell(row, LooksLikeSiteCode) ELSE 0
        r1 == IF s # 0 THEN [r0 EXCEPT !.site_id = Strip(CellText(row[s]))] ELSE r0
    IN  [rec |-> r1,
         roles |-> AddRole(ScanRoles("bact_hab", headers), s, "site_id"),
         insert |-> r1.site_id # <<>>]

\* import_bact_hab_data, bacterial sheet
Extract_bacterial(headers, row) ==
    LET r0 == ScanColumns("bact_hab", headers, row)
        s  == IF r0.site_id = <<>> THEN FirstCell(row, LooksLikeSiteCode) ELSE 0
        r1 == IF s # 0 THEN [r0 EXCEPT !.site_id = Strip(CellText(row[s]))] ELSE r0
    IN  [rec |-> r1,
         roles |-> AddRole(ScanRoles("bact_hab", headers), s, "site_id"),
         insert |-> r1.site_id # <<>> /\ r1.result > 0]

\* sample_id.split('_')[0]
BeforeUnderscore(s) ==
    SubSeq(s, 1, (CHOOSE k \in 1..Len(s) : s[k] = "_" /\ \A j \in 1..(k - 1) : s[j] # "_") - 1)

\* import_sample_dates_data: the sample id is the first cell; the site is
\* taken from the sample id when no column gave one; the row is always inserted
Extract_sample_dates(headers, row) ==
    LET sample_id == StripOr(row[1], <<>>)
        r0 == [ScanColumns("sample_dates", headers, row) EXCEPT !.sample_id = sample_id]
        from_id == r0.site_id = <<>> /\ sample_id # <<>>
                   /\ (Contains(<<"_">>, sample_id) \/ Len(sample_id) >= 3)
        r1 == IF from_id
              THEN [r0 EXCEPT !.site_id = IF Contains(<<"_">>, sample_id)
                                          THEN BeforeUnderscore(sample_id)
                                          ELSE SubSeq(sample_id, 1, 3)]
              ELSE r0
    IN  [rec |-> r1,
         roles |-> AddRole(AddRole(ScanRoles("sample_dates", headers), 1, "sample_id"),
                           IF from_id THEN 1 ELSE 0, "site_id"),
         insert |-> TRUE]

\* import_volunteer_data_safely, assignment sheet
Extract_assignments(headers, row) ==
    LET r0 == ScanColumns("volunteer", headers, row)
    IN  [rec |-> r0,
         roles |-> ScanRoles("volunteer", headers),
         insert |-> r0.volunteer_id # <<>> /\ r0.site_id # <<>>]

\* import_volunteer_tracking, volunteer sheet: active is 1 for the texts
\* 'yes', 'active', '1', 'true' (and for an empty cell), the identifier
\* defaults to the name
Extract_volunteers(headers, row) ==
    LET r0 == ScanColumns("volunteer_info", headers, row)
        named == r0.first_name # <<>> \/ r0.last_name # <<>>
        volunteer_id == IF r0.volunteer_id = <<>> /\ named
                        THEN Replace(r0.first_name \o <<"_">> \o r0.last_name, " ", <<"_">>)
                        ELSE r0.volunteer_id
        active == IF Lower(r0.active) \in {<<"y","e","s">>, <<"a","c","t","i","v","e">>, <<"1">>,
                                           <<"t","r","u","e">>}
                  THEN 1 ELSE 0
    IN  [rec |-> [r0 EXCEPT !.volunteer_id = volunteer_id, !.active = active],
         roles |-> ScanRoles("volunteer_info", headers),
         insert |-> volunteer_id # <<>> /\ (named \/ r0.email # <<>>)]

\* row.get(name, default): the cell of the column of that name
HasColumn(headers, name) == \E c \in 1..Len(headers) : headers[c] = name
RowGet(headers, row, name) == row[CHOOSE c \in 1..Len(headers) : headers[c] = name]
\* str(row.get(name, '')).strip(): a missing cell reads 'nan'
RowGetText(headers, row, name) ==
    IF ~HasColumn(headers, name) THEN <<>>
    ELSE IF IsNa(RowGet(headers, row, name)) THEN Text.nan
    ELSE Strip(CellText(RowGet(headers, row, name)))

\* simple_database_import.import_sites: the row of the sites table
SiteRecord(headers, row) ==
    [site_id |-> Strip(CellText(RowGet(headers, row, Name.SiteCode))),
     site_name |-> Strip(CellText(RowGet(headers, row, Name.SiteCode))),
     waterbody |-> RowGetText(headers, row, Name.WaterBody),
     latitude |-> IF HasColumn(headers, Name.Latitude) THEN RowGet(headers, row, Name.Latitude) ELSE Null,
     longitude |-> IF HasColumn(headers, Name.Longitude) THEN RowGet(headers, row, Name.Longitude) ELSE Null,
     description |-> RowGetText(headers, row, Name.Description)]

\* sheet-name tests of import_bact_hab_data and import_volunteer_data_safely
is_bacterial(sheet_name) ==
    \E keyword \in {<<"i","d","e","x","x">>, <<"c","o","l","i">>, <<"b","a","c","t">>,
    <<"b","a","c","t","e","r","i","a","l">>} : Contains(keyword, Lower(sheet_name))
is_volunteer_data(sheet_name) ==
    \E keyword \in {<<"v","o","l","u","n","t","e","e","r">>, <<"c","o","n","t","a","c","t">>,
    <<"i","n","f","o">>} : Contains(keyword, Lower(sheet_name))
is_assignment_data(sheet_name) ==
    \E keyword \in {<<"a","s","s","i","g","n","m","e","n","t">>,
    <<"s","c","h","e","d","u","l","e">>,
    <<"s","i","t","e">>} : Contains(keyword, Lower(sheet_name))

----------------------------------------------------------------------------
(* Import scripts: the sheets they read *)

ImportScripts == {"batsites", "wqx", "bact_hab", "sample_dates", "volunteer"}

\* the name of the sheet, for the scripts that look at it
SheetNameOf(script) ==
    IF script = "bact_hab" THEN SheetName.IDEXX_Results
    ELSE IF script = "volunteer" THEN SheetName.Assignments
    ELSE IF script = "volunteer_info" THEN SheetName.Volunteers
    ELSE <<>>

\* headers a sheet may carry, each with the cell its column holds
ImportHeaderPool == <<Header.Sample_Code, Header.Site, Header.Station, Header.Sample_Date, Header.Sample_Time,
                      Header.Family, Header.Result, Header.Quality>>
ImportHeaderCell == <<Str(Value.AC1_2024), Str(Value.ac1_sp), Str(Value.B7), Str(Value.date), Str(Value.date),
                      Str(Value.Mayfly), Str(Value.n7), Str(Value.Rejected)>>

ImportHeaderSheets ==
    {[cols |-> [c \in 1..Len(h) |-> ImportHeaderPool[h[c]]],
      rows |-> <<[c \in 1..Len(h) |-> ImportHeaderCell[h[c]]]>>] :
        h \in UNION {{f \in [1..n -> 1..Len(ImportHeaderPool)] :
                        \A a, b \in 1..n : a # b => f[a] # f[b]} : n \in 1..MaxCols}}

\* the layout of a sheet written for each script, and rows it may hold: regular
\* rows, rows without a site cell, rows whose first cell is blank, rows whose
\* number does not parse and rows whose quality column holds free text
LayoutOf(script) ==
    CASE script = "batsites" -> <<Header.Sample_Code, Header.Site, Header.Family, Header.Count>>
      [] script = "wqx" -> <<Header.Site, Header.Parameter, Header.Result, Header.Quality, Header.pH>>
      [] script = "bact_hab" -> <<Header.Sample_Code, Header.Station, Header.Sample_Date, Header.Result, Header.Quality>>
      [] script = "sample_dates" -> <<Header.Sample_Code, Header.Site, Header.Collection_Date, Header.Status>>
      [] script = "volunteer" -> <<Header.Volunteer_ID, Header.Site_ID, Header.Sample_Date, Header.Status>>
      [] script = "sites" -> <<Name.SiteCode, Name.WaterBody, Name.Latitude, Name.Longitude, Name.Description>>
      [] script = "volunteer_info" -> <<Header.Volunteer_ID, Header.First_Name, Header.Status>>

RowPool(script) ==
    CASE script = "batsites" ->
            {<<Str(Value.AC1_2024), Str(Value.ac1_sp), Str(Value.Mayfly), Str(Value.n7)>>,
             <<Str(Value.AC1_2024), Null, Str(Value.Mayfly), Null>>,
             <<Str(Value.AC1_2024), Str(Value.sp), Null, Null>>,
             <<Null, Str(Value.ac1_sp), Str(Value.Mayfly), Str(Value.n7)>>,
             <<Str(Value.B7), Null, Str(Value.Mayfly), Str(Value.bad)>>}
      [] script = "wqx" ->
            {<<Str(Value.ac1_sp), Str(Header.pH), Str(Value.n7), Null, Null>>,
             <<Str(Value.AC1), Str(Header.pH), Str(Value.n7), Str(Value.Rejected), Null>>,
             <<Str(Value.AC1), Null, Null, Null, Str(Value.n7)>>,
             <<Str(Value.sp), Str(Header.pH), Str(Value.n7), Null, Null>>,
             <<Str(Value.AC1), Null, Str(Value.bad), Null, Null>>,
             <<Str(Value.AC1), Str(Header.pH), Str(Value.bad), Null, Null>>}
      [] script = "bact_hab" ->
            {<<Str(Value.AC1_2024), Str(Value.B7), Str(Value.date), Str(Value.n7), Null>>,
             <<Str(Value.AC1_2024), Null, Str(Value.date), Str(Value.n7), Str(Value.Rejected)>>,
             <<Str(Value.AC1_2024), Str(Value.B7), Null, Str(Value.bad), Null>>,
             <<Null, Str(Value.B7), Str(Value.date), Str(Value.n7), Null>>,
             <<Str(Value.AC1_2024), Str(Value.sp), Str(Value.date), Null, Null>>}
      [] script = "sample_dates" ->
            {<<Str(Value.AC1_2024), Str(Value.ac1_sp), Str(Value.date), Null>>,
             <<Str(Value.AC1_2024), Null, Str(Value.date), Str(Value.Rejected)>>,
             <<Str(Value.B7), Str(Value.sp), Null, Null>>,
             <<Null, Str(Value.ac1_sp), Str(Value.date), Null>>,
             <<Str(Value.Mayfly), Null, Null, Null>>}
      [] script = "volunteer" ->
            {<<Str(Value.V12), Str(Value.ac1_sp), Str(Value.date), Null>>,
             <<Str(Value.V12), Null, Str(Value.date), Null>>,
             <<Str(Value.sp), Str(Value.AC1), Str(Value.date), Null>>,
             <<Str(Value.V12), Str(Value.AC1), Null, Str(Value.Rejected)>>}
      [] script = "sites" ->
            {<<Str(Value.AC1), Str(Value.Creek), Num(4), Num(7), Str(Value.x)>>,
             <<Str(Value.ac1_sp), Null, Null, Null, Null>>,
             <<Null, Str(Value.Creek), Num(4), Num(7), Null>>,
             <<Str(Value.sp), Str(Value.Creek), Null, Null, Str(Value.x)>>,
             <<Str(Value.B7), Str(Value.Creek), Null, Null, Null>>}
      [] script = "volunteer_info" ->
            {<<Str(Value.V12), Str(Value.x), Null>>,
             <<Str(Value.V12), Str(Value.Creek), Str(Value.Rejected)>>,
             <<Str(Value.B7), Str(Value.x), Null>>,
             <<Str(Value.B7), Null, Null>>,
             <<Null, Str(Value.x), Null>>}

LayoutSheets(script) ==
    {[cols |-> LayoutOf(script), rows |-> rws] :
        rws \in UNION {[1..n -> RowPool(script)] : n \in 1..MaxImportRows}}

\* a sheet with two columns whose header holds 'site': the second is a notes
\* column, empty in some rows
TwoSiteColumnSheets ==
    {[cols |-> <<Header.Site, Header.Result, Header.Site_Notes>>, rows |-> rws] :
        rws \in UNION {[1..n -> {<<Str(Value.ac1_sp), Str(Value.n7), Null>>,
                                 <<Str(Value.B7), Str(Value.n7), Str(Value.AC1)>>}] :
                          n \in 1..MaxImportRows}}

\* a volunteers sheet whose first column is the first name: the identifier
\* cell may be empty
NameFirstSheets ==
    {[cols |-> <<Header.First_Name, Header.Volunteer_ID>>, rows |-> rws] :
        rws \in UNION {[1..n -> {<<Str(Value.x), Null>>, <<Str(Value.x), Str(Value.V12)>>,
                                 <<Str(Value.Creek), Null>>}] : n \in 1..MaxImportRows}}

\* a locations sheet without the SiteCode column
SitesSheets ==
    {[cols |-> LayoutOf("sites"), rows |-> rws] :
        rws \in UNION {[1..n -> RowPool("sites")] : n \in 1..MaxSiteRows}}
        \cup {[cols |-> <<Header.Site, Name.WaterBody>>, rows |-> <<<<Str(Value.AC1), Str(Value.Creek)>>>>]}

----------------------------------------------------------------------------
(* Import scripts: state machine. view holds the rows of the destination      *)
(* table as the connection sees them, db the rows that are committed.         *)

InitImport ==
    /\ prog \in ImportScripts \cup {"sites", "volunteer_info"}
    /\ pc = "loop"
    /\ \E sh \in (IF prog = "sites" THEN SitesSheets
                  ELSE IF prog = "volunteer_info" THEN LayoutSheets(prog) \cup NameFirstSheets
                  ELSE ImportHeaderSheets \cup LayoutSheets(prog) \cup TwoSiteColumnSheets) :
          /\ cols = sh.cols
          /\ rows = sh.rows
    /\ sheet = SheetNameOf(prog)
    /\ dtypes = <<>>
    /\ cur = 1
    /\ db = <<>>
    /\ view = <<>>
    /\ imported = 0
    /\ role = <<>>
    /\ run = 1

\* a loop with merge semantics: a record the table already holds is not
\* inserted again
LoopStep_Merge(ex) ==
    /\ pc = "loop" /\ cur <= Len(rows)
    /\ IF SkipRow(rows[cur])
       THEN UNCHANGED <<view, imported, role>>
       ELSE /\ role' = ex.roles
            /\ IF ex.insert /\ ~InSeq(ex.rec, view)
               THEN view' = Append(view, ex.rec) /\ imported' = imported + 1
               ELSE UNCHANGED <<view, imported>>
    /\ cur' = cur + 1
    /\ UNCHANGED <<prog, run, pc, sheet, cols, dtypes, rows, db>>

\* one pass of "for _, row in df.iterrows()": skip a row whose first cell is
\* blank, else extract the record and execute the INSERT when the script's
\* condition holds
LoopStep(ex) ==
    /\ pc = "loop" /\ cur <= Len(rows)
    /\ IF SkipRow(rows[cur])
       THEN UNCHANGED <<view, imported, role>>
       ELSE /\ role' = ex.roles
            /\ IF ex.insert
               THEN view' = Append(view, ex.rec) /\ imported' = imported + 1
               ELSE UNCHANGED <<view, imported>>
    /\ cur' = cur + 1
    /\ UNCHANGED <<prog, run, pc, sheet, cols, dtypes, rows, db>>

ImportBatsitesRow ==
    /\ prog = "batsites"
    /\ LoopStep(Extract_batsites(cols, rows[cur]))

ImportWqxRow ==
    /\ prog = "wqx"
    /\ LoopStep(Extract_wqx(cols, rows[cur]))

ImportBacterialRow ==
    /\ prog = "bact_hab" /\ is_bacterial(sheet)
    /\ LoopStep(Extract_bacterial(cols, rows[cur]))

ImportSampleDatesRow ==
    /\ prog = "sample_dates"
    /\ LoopStep(Extract_sample_dates(cols, rows[cur]))

ImportAssignmentRow ==
    /\ prog = "volunteer" /\ ~is_volunteer_data(sheet) /\ is_assignment_data(sheet)
    /\ LoopStep(Extract_assignments(cols, rows[cur]))

\* an insert that leaves the row the table already holds for the volunteer_id
ImportVolunteerRow_InsertOrIgnore ==
    /\ prog = "volunteer_info" /\ is_volunteer_data(sheet)
    /\ pc = "loop" /\ cur <= Len(rows)
    /\ LET ex == Extract_volunteers(cols, rows[cur])
       IN  IF SkipRow(rows[cur])
           THEN UNCHANGED <<view, imported, role>>
           ELSE /\ role' = ex.roles
                /\ IF ex.insert
                   THEN /\ view' = IF \E k \in 1..Len(view) :
                                         view[k].volunteer_id = ex.rec.volunteer_id
                                    THEN view ELSE Append(view, ex.rec)
                        /\ imported' = imported + 1
                   ELSE UNCHANGED <<view, imported>>
    /\ cur' = cur + 1
    /\ UNCHANGED <<prog, run, pc, sheet, cols, dtypes, rows, db>>

\* INSERT OR REPLACE INTO volunteers: volunteer_id is the table's primary key,
\* so the row that holds the same volunteer_id is replaced
ImportVolunteerRow ==
    /\ prog = "volunteer_info" /\ is_volunteer_data(sheet)
    /\ pc = "loop" /\ cur <= Len(rows)
    /\ LET ex == Extract_volunteers(cols, rows[cur])
           Other(v) == v.volunteer_id # ex.rec.volunteer_id
       IN  IF SkipRow(rows[cur])
           THEN UNCHANGED <<view, imported, role>>
           ELSE /\ role' = ex.roles
                /\ IF ex.insert
                   THEN view' = Append(SelectSeq(view, Other), ex.rec) /\ imported' = imported + 1
                   ELSE UNCHANGED <<view, imported>>
    /\ cur' = cur + 1
    /\ UNCHANGED <<prog, run, pc, sheet, cols, dtypes, rows, db>>

\* a loop that ends at the first INSERT that fails
ImportSitesRow_StopAtFailure ==
    /\ prog = "sites" /\ pc = "loop" /\ cur <= Len(rows)
    /\ IF \/ ~HasColumn(cols, Name.SiteCode)
          \/ ~NonEmptyCell(RowGet(cols, rows[cur], Name.SiteCode))
       THEN cur' = cur + 1 /\ UNCHANGED <<view, imported>>
       ELSE IF \E k \in 1..Len(view) : view[k].site_id = SiteRecord(cols, rows[cur]).site_id
            THEN cur' = Len(rows) + 1 /\ UNCHANGED <<view, imported>>
            ELSE /\ view' = Append(view, SiteRecord(cols, rows[cur]))
                 /\ imported' = imported + 1
                 /\ cur' = cur + 1
    /\ UNCHANGED <<prog, run, pc, sheet, cols, dtypes, rows, db, role>>

\* import_sites: the site code is read by column name; the INSERT fails on a
\* site_id the table already holds (PRIMARY KEY) and the row is not counted
ImportSitesRow ==
    /\ prog = "sites" /\ pc = "loop" /\ cur <= Len(rows)
    /\ IF \/ ~HasColumn(cols, Name.SiteCode)
          \/ ~NonEmptyCell(RowGet(cols, rows[cur], Name.SiteCode))
          \/ \E k \in 1..Len(view) : view[k].site_id = SiteRecord(cols, rows[cur]).site_id
       THEN UNCHANGED <<view, imported>>
       ELSE /\ view' = Append(view, SiteRecord(cols, rows[cur]))
            /\ imported' = imported + 1
    /\ cur' = cur + 1
    /\ UNCHANGED <<prog, run, pc, sheet, cols, dtypes, rows, db, role>>

\* conn.commit() after the loop
CommitImport ==
    /\ prog \in ImportScripts \cup {"sites", "volunteer_info", "bact_hab_workbook"}
    /\ pc = "loop" /\ cur > Len(rows)
    /\ db' = view
    /\ pc' = "committed"
    /\ UNCHANGED <<prog, run, sheet, cols, dtypes, rows, cur, view, imported, role>>

\* the script is started again on the same workbook: main connects to the
\* database as the last run left it and calls the import function
Rerun ==
    /\ prog \in ImportScripts \cup {"volunteer_info"}
    /\ pc = "committed" /\ run < MaxRuns
    /\ run' = run + 1
    /\ pc' = "loop"
    /\ cur' = 1
    /\ imported' = 0
    /\ view' = db
    /\ role' = <<>>
    /\ UNCHANGED <<prog, sheet, cols, dtypes, rows, db>>

NextImport ==
    \/ ImportBatsitesRow
    \/ ImportWqxRow
    \/ ImportBacterialRow
    \/ ImportSampleDatesRow
    \/ ImportAssignmentRow
    \/ ImportVolunteerRow
    \/ ImportSitesRow
    \/ CommitImport
    \/ Rerun

SpecImport == InitImport /\ [][NextImport]_vars

----------------------------------------------------------------------------
(* fix_database_import.py *)

\* row.get(name, '') is missing or blank: "Skip empty rows"
BlankSite(headers, row) ==
    ~HasColumn(headers, Header.Site) \/ ~NonEmptyCell(RowGet(headers, row, Header.Site))

\* str(row.get('data_quality_flag', 'clean'))
FlagText(headers, row) ==
    IF ~HasColumn(headers, Name.data_quality_flag) THEN Text.clean
    ELSE IF IsNa(RowGet(headers, row, Name.data_quality_flag)) THEN Text.nan
    ELSE CellText(RowGet(headers, row, Name.data_quality_flag))

\* row.get(name, default) of a cell that is passed on as it is
RowGetOr(headers, row, name, dflt) ==
    IF HasColumn(headers, name) THEN RowGet(headers, row, name) ELSE dflt

\* float(value) / int(value) raises ValueError on text that is no number
Converts(cell) == cell.k = "num" \/ (cell.k = "str" /\ CanParseFloat(cell.s))

\* the tuples of sites_data, in sheet order
RECURSIVE SitesData(_, _)
SitesData(headers, rws) ==
    IF rws = <<>> THEN <<>>
    ELSE (IF BlankSite(headers, Head(rws)) THEN <<>>
          ELSE <<[table |-> "sites",
                  site_id |-> Strip(CellText(RowGet(headers, Head(rws), Header.Site))),
                  site_name |-> Strip(CellText(RowGet(headers, Head(rws), Header.Site))),
                  waterbody |-> RowGetText(headers, Head(rws), Name.Waterbody),
                  latitude |-> RowGetOr(headers, Head(rws), Name.Latitude, Null),
                  longitude |-> RowGetOr(headers, Head(rws), Name.Longitude, Null),
                  description |-> RowGetText(headers, Head(rws), Name.Description)]>>)
         \o SitesData(headers, Tail(rws))

\* the columns of a parameter sheet that hold its values
IsValueColumn(col, param) == Contains(<<"v","a","l","u","e">>, Lower(col)) \/ Contains(Lower(param), Lower(col))

\* the tuples one row of the parameter sheet gives, one for each value column
\* whose cell is a non-zero number
RECURSIVE RowQualityData(_, _, _, _)
RowQualityData(headers, row, param, c) ==
    IF c > Len(headers) THEN <<>>
    ELSE (IF /\ IsValueColumn(headers[c], param)
             /\ ~IsNa(row[c]) /\ row[c] # Str(<<>>) /\ row[c] # Num(0)
             /\ Converts(row[c])
          THEN <<[table |-> "water_quality",
                  site_id |-> Strip(CellText(RowGet(headers, row, Header.Site))),
                  measurement_date |-> RowGetOr(headers, row, Name.Date, Str(<<>>)),
                  parameter |-> param,
                  value |-> NumberOr0(row[c]),
                  unit |-> Text.degC,
                  quality_flag |-> FlagText(headers, row)]>>
          ELSE <<>>)
         \o RowQualityData(headers, row, param, c + 1)

RECURSIVE WaterQualityData(_, _, _)
WaterQualityData(headers, rws, param) ==
    IF rws = <<>> THEN <<>>
    ELSE (IF BlankSite(headers, Head(rws)) THEN <<>>
          ELSE RowQualityData(headers, Head(rws), param, 1))
         \o WaterQualityData(headers, Tail(rws), param)

\* the tuples of biological_data; a row whose Count, Abundance or Dominance
\* does not convert is left out
RECURSIVE BiologicalData(_, _)
BiologicalData(headers, rws) ==
    IF rws = <<>> THEN <<>>
    ELSE LET row == Head(rws)
             count == RowGetOr(headers, row, Header.Count, Num(0))
             abundance == RowGetOr(headers, row, Name.Abundance, Num(0))
             dominance == RowGetOr(headers, row, Name.Dominance, Num(0))
         IN  (IF \/ BlankSite(headers, row)
                 \/ \E x \in {count, abundance, dominance} : ~IsNa(x) /\ ~Converts(x)
              THEN <<>>
              ELSE <<[table |-> "biological_data",
                      site_id |-> Strip(CellText(RowGet(headers, row, Header.Site))),
                      sample_date |-> RowGetOr(headers, row, Name.Date, Str(<<>>)),
                      taxon |-> RowGetText(headers, row, Name.Genus),
                      count |-> NumberOr0(count),
                      abundance |-> NumberOr0(abundance),
                      dominance |-> NumberOr0(dominance),
                      quality_flag |-> FlagText(headers, row)]>>)
             \o BiologicalData(headers, Tail(rws))

\* executemany on the sites table stops at the first site_id the table
\* already holds (PRIMARY KEY); the rows before it stay in the transaction
RECURSIVE InsertSites(_, _)
InsertSites(table, data) ==
    IF data = <<>> THEN [rows |-> table, ok |-> TRUE]
    ELSE IF \E k \in 1..Len(table) :
               table[k].table = "sites" /\ table[k].site_id = Head(data).site_id
         THEN [rows |-> table, ok |-> FALSE]
         ELSE InsertSites(Append(table, Head(data)), Tail(data))

\* the three workbooks the script reads; sheet.found names the workbooks
\* that exist (os.path.exists)
FixSheets ==
    [sites |-> [cols |-> <<Header.Site, Name.Waterbody, Name.Latitude, Name.Longitude,
                           Name.Description>>,
                rows |-> {<<Str(Value.ac1_sp), Str(Value.Creek), Num(4), Num(7), Null>>,
                          <<Str(Value.B7), Str(Value.Creek), Null, Null, Null>>,
                          <<Null, Str(Value.Creek), Null, Null, Null>>}],
     param |-> [cols |-> <<Header.Site, Name.Date, Text.Temperature, Name.data_quality_flag>>,
                rows |-> {<<Str(Value.AC1), Str(Value.date), Num(7), Str(Text.clean)>>,
                          <<Str(Value.AC1), Str(Value.date), Str(Value.bad), Null>>}],
     bugs |-> [cols |-> <<Header.Site, Name.Date, Name.Genus, Header.Count>>,
               rows |-> {<<Str(Value.AC1), Str(Value.date), Str(Value.Mayfly), Num(5)>>,
                         <<Str(Value.B7), Str(Value.date), Null, Str(Value.bad)>>}]]

RowsUpTo(pool, max) == UNION {[1..n -> pool] : n \in 0..max}

OldSite == [table |-> "sites", site_id |-> Value.AC1, site_name |-> Value.AC1, waterbody |-> Value.Creek,
            latitude |-> Null, longitude |-> Null, description |-> <<>>]

\* clear_database: the tables it deletes from, in this order
tables ==
    <<"sites", "water_quality", "biological_data", "volunteers", "equipment",
      "data_quality_flags">>

TableSet == {tables[i] : i \in 1..Len(tables)}

\* the tables streamwatch.db can hold when main connects: all six, or all
\* but one; role holds them
ExistingTables == {TableSet, TableSet \ {"equipment"}, TableSet \ {"sites"}}

InitFix ==
    /\ prog = "fix_database_import"
    /\ pc = "connected"
    /\ sheet \in {s \in [sites : RowsUpTo(FixSheets.sites.rows, MaxSiteRows),
                       param : RowsUpTo(FixSheets.param.rows, MaxImportRows),
                       bugs : RowsUpTo(FixSheets.bugs.rows, MaxBugRows),
                       found : SUBSET {"sites", "param", "bugs"}] :
                     \A f \in {"sites", "param", "bugs"} \ s.found : s[f] = <<>>}
    /\ db \in {<<>>, <<OldSite>>}
    /\ view = db
    /\ imported = 0
    /\ cols = <<>> /\ dtypes = <<>> /\ rows = <<>> /\ cur = 0
    /\ role \in ExistingTables
    /\ run = 1

FixUnchanged == UNCHANGED <<prog, run, sheet, cols, dtypes, rows, cur, role>>

\* the rows the connection sees after DELETE FROM the first n tables
DeleteFirst(table_rows, n) ==
    LET Kept(r) == \A i \in 1..n : r.table # tables[i]
    IN  SelectSeq(table_rows, Kept)

\* how many tables are deleted from before a DELETE raises OperationalError
\* (no such table)
DeletedBeforeMissing(existing) ==
    IF TableSet \subseteq existing THEN Len(tables)
    ELSE (CHOOSE i \in 1..Len(tables) :
             tables[i] \notin existing /\ \A j \in 1..(i - 1) : tables[j] \in existing) - 1

\* a clear step that commits after each DELETE
ClearDatabase_CommitEach ==
    /\ prog = "fix_database_import" /\ pc = "connected"
    /\ view' = DeleteFirst(view, DeletedBeforeMissing(role))
    /\ db' = view'
    /\ pc' = IF TableSet \subseteq role THEN "cleared" ELSE "aborted"
    /\ UNCHANGED imported
    /\ FixUnchanged

\* clear_database: DELETE FROM every table, then conn.commit(); the DELETE
\* from a table that does not exist raises before the commit, and main has
\* no except
ClearDatabase ==
    /\ prog = "fix_database_import" /\ pc = "connected"
    /\ view' = DeleteFirst(view, DeletedBeforeMissing(role))
    /\ IF TableSet \subseteq role
       THEN db' = view' /\ pc' = "cleared"
       ELSE db' = db /\ pc' = "aborted"
    /\ UNCHANGED imported
    /\ FixUnchanged

\* import_sites_data: executemany without a commit; an IntegrityError is
\* caught and nothing is reported
ImportSitesData ==
    /\ prog = "fix_database_import" /\ pc = "cleared"
    /\ IF "sites" \in sheet.found
       THEN LET res == InsertSites(view, SitesData(FixSheets.sites.cols, sheet.sites))
            IN  /\ view' = res.rows
                /\ imported' = IF res.ok
                               THEN imported + Len(SitesData(FixSheets.sites.cols, sheet.sites))
                               ELSE imported
       ELSE UNCHANGED <<view, imported>>
    /\ pc' = "sites"
    /\ UNCHANGED db
    /\ FixUnchanged

\* an import that empties the tables before it looks for its workbook
ImportWaterQualityData_ClearFirst ==
    /\ prog = "fix_database_import" /\ pc = "sites"
    /\ IF "param" \in sheet.found
       THEN /\ view' = WaterQualityData(FixSheets.param.cols, sheet.param, Text.Temperature)
            /\ imported' = imported + Len(WaterQualityData(FixSheets.param.cols, sheet.param, Text.Temperature))
       ELSE view' = <<>> /\ UNCHANGED imported
    /\ pc' = "water_quality"
    /\ UNCHANGED db
    /\ FixUnchanged

\* import_water_quality_data, for the parameter sheet the workbook holds
ImportWaterQualityData ==
    /\ prog = "fix_database_import" /\ pc = "sites"
    /\ IF "param" \in sheet.found
       THEN /\ view' = view \o WaterQualityData(FixSheets.param.cols, sheet.param, Text.Temperature)
            /\ imported' = imported + Len(WaterQualityData(FixSheets.param.cols, sheet.param, Text.Temperature))
       ELSE UNCHANGED <<view, imported>>
    /\ pc' = "water_quality"
    /\ UNCHANGED db
    /\ FixUnchanged

\* import_biological_data
ImportBiologicalData ==
    /\ prog = "fix_database_import" /\ pc = "water_quality"
    /\ IF "bugs" \in sheet.found
       THEN /\ view' = view \o BiologicalData(FixSheets.bugs.cols, sheet.bugs)
            /\ imported' = imported + Len(BiologicalData(FixSheets.bugs.cols, sheet.bugs))
       ELSE UNCHANGED <<view, imported>>
    /\ pc' = "biological_data"
    /\ UNCHANGED db
    /\ FixUnchanged

\* test_database: SELECT statements only
TestDatabase ==
    /\ prog = "fix_database_import" /\ pc = "biological_data"
    /\ pc' = "tested"
    /\ UNCHANGED <<db, view, imported>>
    /\ FixUnchanged

\* finally: conn.close(); the open transaction is rolled back
CloseConnection ==
    /\ prog = "fix_database_import" /\ pc \in {"tested", "aborted"}
    /\ view' = db
    /\ pc' = "closed"
    /\ UNCHANGED <<db, imported>>
    /\ FixUnchanged

NextFix ==
    \/ ClearDatabase
    \/ ImportSitesData
    \/ ImportWaterQualityData
    \/ ImportBiologicalData
    \/ TestDatabase
    \/ CloseConnection

SpecFix == InitFix /\ [][NextFix]_vars

\* the two importers of the sites table: the row loop of
\* simple_database_import and the executemany of fix_database_import
InitSiteImports == (InitImport /\ prog = "sites") \/ InitFix
NextSiteImports == ImportSitesRow \/ CommitImport \/ NextFix
SpecSiteImports == InitSiteImports /\ [][NextSiteImports]_vars

----------------------------------------------------------------------------
(* Claims about clean_sheet_data *)

FlagColumnPresent == InSeq(Name.data_quality_flag, cols)
RowFlag(r) == rows[r][CHOOSE c \in 1..Len(cols) : cols[c] = Name.data_quality_flag].s

\* the fields of the record: the sheet's columns, without the flag column and
\* the <col>_missing_flag indicator columns the cleaner adds
RecordFields == {c \in 1..Len(cols) : cols[c] # Name.data_quality_flag /\ dtypes[c] # "bool"}
RecordNulls(r) == Cardinality({c \in RecordFields : rows[r][c].k = "null"})

MissingPassDone == (prog = "etl" /\ pc = "flagged") \/ (prog = "cleaner" /\ pc = "done")

\* C3: after the missing-value pass a row is flagged high_missing exactly when
\* the null fields of its record are more than half of the record's fields,
\* and clean otherwise (so 3 null fields out of 5 give high_missing).
C3_HighMissingIffOverHalfNull ==
    (MissingPassDone /\ FlagColumnPresent) =>
        \A r \in 1..Len(rows) :
            RowFlag(r) = (IF 2 * RecordNulls(r) > Cardinality(RecordFields)
                          THEN Text.high_missing ELSE Text.clean)

\* what the code computes instead: the flag column (and every indicator
\* column) counts as a field of the row
C3_CodeCountsFlagColumn ==
    (MissingPassDone /\ FlagColumnPresent) =>
        \A r \in 1..Len(rows) :
            RowFlag(r) = (IF 2 * RecordNulls(r) > Len(cols) THEN Text.high_missing ELSE Text.clean)

C3_ThreeOfFiveStaysClean ==
    /\ MissingPassDone /\ FlagColumnPresent
    /\ \E r \in 1..Len(rows) :
          Cardinality(RecordFields) = 5 /\ RecordNulls(r) = 3 /\ RowFlag(r) = Text.clean

\* Quartiles of the non-null values of a column, by order statistics
ValueRows(c) == {r \in 1..Len(rows) : rows[r][c].k = "num"}
OrderStat(c, k) ==
    CHOOSE x \in {rows[r][c].v : r \in ValueRows(c)} :
        /\ Cardinality({r \in ValueRows(c) : rows[r][c].v < x}) < k
        /\ Cardinality({r \in ValueRows(c) : rows[r][c].v <= x}) >= k
\* four times the quartile q4/4, interpolated linearly at position (n - 1) * q4 / 4
Quartile4(c, q4) ==
    LET pos == q4 * (Cardinality(ValueRows(c)) - 1)
    IN  IF pos % 4 = 0 THEN 4 * OrderStat(c, (pos \div 4) + 1)
        ELSE (4 - (pos % 4)) * OrderStat(c, (pos \div 4) + 1)
             + (pos % 4) * OrderStat(c, (pos \div 4) + 2)
\* v < Q1 - 1.5 * IQR  or  v > Q3 + 1.5 * IQR, all multiplied by 8
BeyondIqrFences(r, c) ==
    LET q1 == Quartile4(c, 1)
        q3 == Quartile4(c, 3)
    IN  \/ 8 * rows[r][c].v < 2 * q1 - 3 * (q3 - q1)
        \/ 8 * rows[r][c].v > 2 * q3 + 3 * (q3 - q1)

NumericColumns == {c \in 1..Len(cols) : dtypes[c] = "float64"}
HoldsOutlier(r) == \E c \in NumericColumns : r \in ValueRows(c) /\ BeyondIqrFences(r, c)
HoldsOutlierInLargeColumn(r) ==
    \E c \in NumericColumns :
        /\ Cardinality(ValueRows(c)) > 10
        /\ r \in ValueRows(c) /\ BeyondIqrFences(r, c)

EtlDone == prog = "etl" /\ pc = "done"

NamesStandardized == Cleaning /\ pc \in {"named", "deduped", "coerced", "flagged", "done", "raised"}

\* C7: after column-name standardization the column names of the sheet are
\* pairwise distinct, however many headers normalize to the same name.
C7_StandardizedNamesDistinct ==
    NamesStandardized =>
        \A i, j \in 1..Len(cols) : i # j => cols[i] # cols[j]

TypesCoerced == Cleaning /\ pc \in {"coerced", "flagged", "done", "raised"} /\ role # <<>>

\* C8 (clean_sheet_data): no column is coerced under two roles; a header that
\* matches a parameter keyword and a date keyword is coerced under one only.
C8_OneCoercionPerColumn ==
    TypesCoerced => \A c \in DOMAIN role : Cardinality(role[c]) <= 1

----------------------------------------------------------------------------
(* Claims about the import scripts *)

\* C1: no row of a destination table holds an empty site_id, whatever the
\* sheet contains: a row whose site cell is missing or blank emits no record.
C1_NoEmptySiteIdInserted ==
    \A k \in 1..Len(db) : db[k].site_id # <<>>

QualityFlagValues == {Text.clean, Text.high_missing, Text.potential_outlier}

\* C6: every quality_flag written to a destination table is one of clean,
\* high_missing, potential_outlier.
C6_QualityFlagInEnum ==
    \A k \in 1..Len(db) :
        "quality_flag" \in DOMAIN db[k] => db[k].quality_flag \in QualityFlagValues

RowClassified == prog \in ImportScripts /\ role # <<>>
DateFields == {"sample_date", "measurement_date", "collection_date", "processing_date",
               "assignment_date"}
NamesSite(h) == Contains(<<"s","i","t","e">>, Lower(h)) \/ Contains(<<"s","t","a","t","i","o","n">>, Lower(h))
NamesDate(h) == Contains(<<"d","a","t","e">>, Lower(h)) \/ Contains(<<"t","i","m","e">>, Lower(h))

\* C9: a column whose header contains 'date' or 'time' (and names no
\* identifier, which has priority) is read as the date of the record.
C9_DateHeaderGetsDateRole ==
    RowClassified =>
        \A c \in 1..Len(cols) :
            (NamesDate(cols[c]) /\ ~NamesSite(cols[c])) => role[c] \cap DateFields # {}

\* C10: a column whose header contains 'site' or 'station' is read as the
\* identifier of the record, in every import script.
C10_SiteHeaderGetsIdentifierRole ==
    RowClassified =>
        \A c \in 1..Len(cols) : NamesSite(cols[c]) => "site_id" \in role[c]

\* C2: when fix_database_import.main has ended, every row its import
\* functions reported as imported is in the database.
C2_ReportedRowsPersist ==
    (prog = "fix_database_import" /\ pc = "closed") => Len(db) >= imported

----------------------------------------------------------------------------
(* Claims about the positional fallback, coercion and control flow *)

\* the column of the sheet as read is not completely empty
HoldsData(o) == \E r \in 1..Len(rows) : rows[r][o].k # "null"
\* the column of the sheet as read that becomes column j once the empty ones are dropped
SheetColumnOf(j) ==
    CHOOSE o \in 1..Len(cols) :
        HoldsData(o) /\ Cardinality({q \in 1..o : HoldsData(q)}) = j
HeaderIsUnnamed(h) == Contains(<<"U","n","n","a","m","e","d">>, h)
\* a cell of the column names a role by its content ('site' or 'date')
ContentNamesRole(o) ==
    \E r \in 1..Len(rows) :
        /\ rows[r][o].k = "str"
        /\ \/ Contains(<<"s","i","t","e">>, Lower(rows[r][o].s))
           \/ Contains(<<"d","a","t","e">>, Lower(rows[r][o].s))

\* C11: an unnamed column gets a role by its position in the sheet: it becomes
\* Site_ID exactly when it is the first column of the sheet and Date exactly
\* when it is the second; a column at another position gets neither.
C11_FallbackBySheetPosition ==
    [][(Cleaning /\ pc = "read" /\ pc' = "renamed") =>
          \A j \in 1..Len(cols') :
              (HeaderIsUnnamed(cols[SheetColumnOf(j)]) /\ ~ContentNamesRole(SheetColumnOf(j)))
                  => /\ (cols'[j] = Name.Site_ID) <=> (SheetColumnOf(j) = 1)
                     /\ (cols'[j] = Name.Date) <=> (SheetColumnOf(j) = 2)]_vars

\* the cell holds something that float() cannot parse
Unparseable(cell) == cell.k = "str" /\ ~CanParseFloat(cell.s)
StepsOverRow == pc = "loop" /\ cur <= Len(rows) /\ cur' = cur + 1

\* C12: a result cell that cannot be parsed as a float yields a record whose
\* value is null: the record is written, and its value is not a number.
C12_UnparseableValueIsNull ==
    [][(prog = "wqx" /\ StepsOverRow /\ NonEmptyCell(rows[cur][1])) =>
          \A i \in 1..Len(cols) :
              (cols[i] = Header.Result /\ Unparseable(rows[cur][i]))
                  => /\ Len(view') = Len(view) + 1
                     /\ view'[Len(view')].value \notin Int]_vars

\* C13: every site identifier is stored trimmed and upper-cased, so the site
\* cell 'ac1 ' is stored as 'AC1'.
C13_SiteIdTrimmedAndUpperCased ==
    prog \in ImportScripts \cup {"sites"} =>
        \A i \in 1..Len(view) :
            /\ view[i].site_id = Strip(view[i].site_id)
            /\ \A c \in 1..Len(view[i].site_id) : ~IsCharOf("lower", view[i].site_id[c])

----------------------------------------------------------------------------
(* load_remaining_tables.py: the coercion functions, applied to a value and   *)
(* then to their own result. rows holds the value, view the results.          *)

MaxText == 3
MaxApply == 2

\* clean_text_field(value); str(True) is 'True'
clean_text_field(value) ==
    LET str == IF value.k = "bool"
               THEN (IF value.v = 1 THEN <<"T","r","u","e">> ELSE <<"F","a","l","s","e">>)
               ELSE CellText(value)
    IN  IF IsNa(value) \/ value = Str(<<>>) THEN Null
        ELSE Str(Upper(Strip(str)))

\* convert_to_boolean(value)
convert_to_boolean(value) ==
    IF IsNa(value) THEN Null
    ELSE IF value.k = "bool" THEN value
    ELSE IF value.k = "str"
         THEN Bool(Lower(value.s) \in {<<"t","r","u","e">>, <<"1">>, <<"y","e","s">>, <<"y">>,
                                       <<"a","c","t","i","v","e">>})
    ELSE Bool(value.v # 0)

\* values a cell of the volunteer or bacteria sheet may hold
CoerceInputs ==
    {Null, Bool(TRUE), Bool(FALSE), Num(0), Num(1), Num(7),
     Str(<<"t","r","u","e">>), Str(<<"Y","e","s">>), Str(<<"a","c","t","i","v","e">>)}
        \cup {Str(t) : t \in UNION {[1..n -> {" ", "a", "Y", "1"}] : n \in 0..MaxText}}

InitCoerce ==
    /\ prog \in {"clean_text_field", "convert_to_boolean"}
    /\ pc = "apply"
    /\ \E x \in CoerceInputs : rows = <<<<x>>>>
    /\ cols = <<>> /\ dtypes = <<>> /\ sheet = <<>> /\ cur = 0
    /\ db = <<>> /\ view = <<>> /\ imported = 0 /\ role = <<>>
    /\ run = 1

\* the argument of the next application
Argument == IF view = <<>> THEN rows[1][1] ELSE view[Len(view)]

ApplyCleanTextField ==
    /\ prog = "clean_text_field" /\ pc = "apply" /\ Len(view) < MaxApply
    /\ view' = Append(view, clean_text_field(Argument))
    /\ UNCHANGED <<prog, run, pc, sheet, cols, dtypes, rows, cur, db, imported, role>>

ApplyConvertToBoolean ==
    /\ prog = "convert_to_boolean" /\ pc = "apply" /\ Len(view) < MaxApply
    /\ view' = Append(view, convert_to_boolean(Argument))
    /\ UNCHANGED <<prog, run, pc, sheet, cols, dtypes, rows, cur, db, imported, role>>

NextCoerce == ApplyCleanTextField \/ ApplyConvertToBoolean

SpecCoerce == InitCoerce /\ [][NextCoerce]_vars

\* C14: clean_text_field and convert_to_boolean are idempotent: applied to
\* their own result they return that result, for every input value.
C14_CoercionIdempotent ==
    (prog \in {"clean_text_field", "convert_to_boolean"} /\ Len(view) >= 2)
        => view[2] = view[1]

\* convert_to_boolean applied to its own result returns that result
ConvertToBooleanIdempotent ==
    (prog = "convert_to_boolean" /\ Len(view) >= 2) => view[2] = view[1]

\* the name of the column holds a water-quality parameter key
IsParameterColumn(c) == NameMatchesParam(cols[c], water_quality_params_etl)

\* C15 (as stated): when the missing fraction is about to be computed, no cell
\* of a parameter column still holds text that float() cannot parse.
C15_FailedCellsNullBeforeFlagging ==
    (prog = "etl" /\ pc = "coerced") =>
        \A c \in 1..Len(cols) : IsParameterColumn(c) =>
            \A r \in 1..Len(rows) : ~Unparseable(rows[r][c])

\* the same for the columns whose standardized name is unique, with the order
\* of the passes: the flag column appears in the step that follows coercion
FailedCellsNullInUniqueColumns ==
    /\ [](  (prog = "etl" /\ pc = "coerced") =>
               \A c \in 1..Len(cols) : (IsParameterColumn(c) /\ IsUniqueName(cols, c)) =>
                   \A r \in 1..Len(rows) : ~Unparseable(rows[r][c]))
    /\ [][(Cleaning /\ prog = "etl" /\ ~FlagColumnPresent /\ FlagColumnPresent')
              => (pc = "coerced" /\ pc' = "flagged")]_vars

\* the script has been run twice on the same workbook
SecondRunCommitted == run = 2 /\ pc = "committed"
\* the table holds the records of one run, and then the same records again
HoldsEachRecordTwice ==
    /\ Len(db) = 2 * imported
    /\ \A i \in 1..imported : db[imported + i] = db[i]

\* C16 (as stated): after an import script has been run a second time on the
\* same input the table holds each record twice.
C16_RerunDuplicatesEveryRecord ==
    (prog \in ImportScripts \cup {"volunteer_info"} /\ SecondRunCommitted) => HoldsEachRecordTwice

\* C16 (amended): that holds for the scripts that write with a plain INSERT;
\* the volunteers table, written with INSERT OR REPLACE, holds one row for each
\* volunteer_id after the second run, the row of the last record with that id.
C16_RerunDuplicatesPlainInserts ==
    SecondRunCommitted =>
        /\ prog \in ImportScripts => HoldsEachRecordTwice
        /\ prog = "volunteer_info" =>
              /\ \A i, j \in 1..Len(db) : db[i].volunteer_id = db[j].volunteer_id => i = j
              /\ Len(db) <= imported

C16_Witness ==
    /\ prog = "wqx" /\ SecondRunCommitted
    /\ imported = 2 /\ Len(db) = 4 /\ db[1] # db[2]

\* the site cell of each row of the locations sheet the importer reads
SiteCells ==
    IF prog = "sites"
    THEN [r \in 1..Len(rows) |-> IF \E c \in 1..Len(cols) : cols[c] = Name.SiteCode
                                 THEN rows[r][CHOOSE c \in 1..Len(cols) : cols[c] = Name.SiteCode]
                                 ELSE Null]
    ELSE [r \in 1..Len(sheet.sites) |-> sheet.sites[r][1]]
SiteIdOf(r) == Strip(CellText(SiteCells[r]))
HasSite(r) == SiteCells[r].k # "null" /\ SiteIdOf(r) # <<>>
\* the INSERT of the row fails: an earlier row holds the same site_id
InsertFails(r) == HasSite(r) /\ \E q \in 1..(r - 1) : HasSite(q) /\ SiteIdOf(q) = SiteIdOf(r)
ValidSiteRow(r) == HasSite(r) /\ ~InsertFails(r)
\* the sites table as the importer's connection holds it after the import
SitesTable == IF prog = "sites" THEN db ELSE view
SiteStored(r) == \E k \in 1..Len(SitesTable) : SitesTable[k].site_id = SiteIdOf(r)
SitesImportDone ==
    (prog = "sites" /\ pc = "committed") \/ (prog = "fix_database_import" /\ pc = "sites")
FailingSiteRows == {r \in 1..Len(SiteCells) : InsertFails(r)}

\* C17 (as stated): a failing insert does not stop the import: every valid
\* row, also after a row whose insert failed, is in the table, and the counter
\* equals the number of rows inserted.
C17_LaterValidRowsInserted ==
    SitesImportDone =>
        /\ \A r \in 1..Len(SiteCells) : ValidSiteRow(r) => SiteStored(r)
        /\ imported = Len(SitesTable)

\* C17 (amended): that holds for the row loop of simple_database_import; the
\* executemany of fix_database_import stops at the first failing row: the
\* valid rows before it are in the transaction, the valid rows after it are
\* not, and nothing is counted.
C17_LoopContinuesBatchStops ==
    SitesImportDone =>
        IF prog = "sites" \/ FailingSiteRows = {}
        THEN /\ \A r \in 1..Len(SiteCells) : ValidSiteRow(r) => SiteStored(r)
             /\ imported = Len(SitesTable)
        ELSE LET f == CHOOSE r \in FailingSiteRows : \A q \in FailingSiteRows : r <= q
             IN  /\ \A r \in 1..Len(SiteCells) : ValidSiteRow(r) => (SiteStored(r) <=> r < f)
                 /\ imported = 0

C17_Witness ==
    /\ prog = "sites" /\ pc = "committed"
    /\ \E r, q \in 1..Len(SiteCells) :
          InsertFails(r) /\ r < q /\ ValidSiteRow(q) /\ SiteStored(q)
    /\ imported = 2

\* C18: the executemany of the sites batch is all-or-nothing: when
\* fix_database_import has ended, either every record of the batch is in the
\* sites table, or the insert failed and none of them is.
C18_BatchAllOrNothing ==
    (prog = "fix_database_import" /\ pc = "closed") =>
        IF FailingSiteRows = {}
        THEN \A r \in 1..Len(SiteCells) : HasSite(r) =>
                 \E k \in 1..Len(db) : db[k].table = "sites" /\ db[k].site_id = SiteIdOf(r)
        ELSE \A k \in 1..Len(db) : db[k].table # "sites"

\* an import function of fix_database_import is called and its workbook
\* does not exist
CalledWithoutWorkbook ==
    /\ prog = "fix_database_import"
    /\ \/ pc = "cleared" /\ pc' = "sites" /\ "sites" \notin sheet.found
       \/ pc = "sites" /\ pc' = "water_quality" /\ "param" \notin sheet.found
       \/ pc = "water_quality" /\ pc' = "biological_data" /\ "bugs" \notin sheet.found

\* C19: an import function whose workbook does not exist returns without an
\* insert or a delete: the tables hold the same rows after the call as before.
C19_MissingWorkbookLeavesTables ==
    [][CalledWithoutWorkbook => (view' = view /\ db' = db)]_vars

\* import_water_quality_data has returned for a missing workbook while the
\* sites table holds rows
C19_Witness ==
    /\ prog = "fix_database_import" /\ pc = "water_quality"
    /\ "param" \notin sheet.found
    /\ Len(view) > 0 /\ \A k \in 1..Len(view) : view[k].table = "sites"

----------------------------------------------------------------------------
(* main of load_remaining_tables.py and of import_remaining_data.py: the      *)
(* steps main calls in turn. sheet holds what each step will meet, cur is the *)
(* step main is about to call, view the lines logged, db the steps whose      *)
(* rows were written.                                                         *)

MainSteps ==
    [load_remaining_tables |-> <<"load_bacteria_data", "load_volunteer_data">>,
     import_remaining_data |-> <<"import_all_streamwatch_data", "import_volunteer_data",
                                 "import_bact_hab_data", "import_biological_sites">>]

InitMain ==
    /\ prog \in DOMAIN MainSteps
    /\ pc = "main"
    /\ cur = 1
    /\ sheet \in [1..Len(MainSteps[prog]) ->
                     IF prog = "load_remaining_tables" THEN {"ok", "error"}
                     ELSE {"ok", "no_file", "error"}]
    /\ db = <<>> /\ view = <<>>
    /\ cols = <<>> /\ dtypes = <<>> /\ rows = <<>> /\ imported = 0 /\ role = <<>>
    /\ run = 1

\* an import step that lets its failure escape to main
ImportStep_Raise ==
    /\ prog = "import_remaining_data" /\ pc = "main" /\ cur <= Len(MainSteps[prog])
    /\ IF sheet[cur] = "ok"
       THEN /\ db' = Append(db, MainSteps[prog][cur])
            /\ view' = Append(view, "Imported")
            /\ cur' = cur + 1 /\ pc' = pc
       ELSE IF sheet[cur] = "no_file"
       THEN /\ view' = Append(view, "File not found!")
            /\ cur' = cur + 1 /\ pc' = pc
            /\ UNCHANGED db
       ELSE /\ view' = Append(view, "Error importing")
            /\ pc' = "raised"
            /\ UNCHANGED <<db, cur>>
    /\ UNCHANGED <<prog, run, sheet, cols, dtypes, rows, imported, role>>

\* load_bacteria_data / load_volunteer_data: the except logs the error and
\* raises it again; the except of main logs it and raises it again, so the
\* steps that follow are not called
LoadStep ==
    /\ prog = "load_remaining_tables" /\ pc = "main" /\ cur <= Len(MainSteps[prog])
    /\ IF sheet[cur] = "ok"
       THEN /\ db' = Append(db, MainSteps[prog][cur])
            /\ view' = Append(view, "Successfully loaded")
            /\ cur' = cur + 1 /\ pc' = pc
       ELSE /\ view' = view \o <<"Error loading", "Error in main process">>
            /\ pc' = "raised"
            /\ UNCHANGED <<db, cur>>
    /\ UNCHANGED <<prog, run, sheet, cols, dtypes, rows, imported, role>>

\* the import functions of import_remaining_data.py: a missing workbook is
\* printed and the function returns; an exception is printed by the except of
\* the function; main calls the next function in both cases
ImportStep ==
    /\ prog = "import_remaining_data" /\ pc = "main" /\ cur <= Len(MainSteps[prog])
    /\ IF sheet[cur] = "ok"
       THEN /\ db' = Append(db, MainSteps[prog][cur])
            /\ view' = Append(view, "Imported")
       ELSE /\ view' = Append(view, IF sheet[cur] = "no_file" THEN "File not found!"
                                    ELSE "Error importing")
            /\ UNCHANGED db
    /\ cur' = cur + 1
    /\ UNCHANGED <<prog, run, pc, sheet, cols, dtypes, rows, imported, role>>

\* the end of main, after the last step: the closing message
MainDone ==
    /\ prog \in DOMAIN MainSteps /\ pc = "main" /\ cur > Len(MainSteps[prog])
    /\ pc' = "done"
    /\ view' = Append(view, "complete")
    /\ UNCHANGED <<prog, run, sheet, cols, dtypes, rows, cur, db, imported, role>>

NextMain == LoadStep \/ ImportStep \/ MainDone

SpecMain == InitMain /\ [][NextMain]_vars

\* main calls a step that fails
StepFails == prog \in DOMAIN MainSteps /\ pc = "main" /\ cur <= Len(sheet) /\ sheet[cur] # "ok"

\* C20 (as stated): no failure of a step reaches main's caller, and after a
\* step has failed main calls the step that follows.
C20_NoFailureEscalated ==
    /\ [](prog \in DOMAIN MainSteps => pc # "raised")
    /\ [][StepFails => (pc' = "main" /\ cur' = cur + 1)]_vars

\* C20 (amended): that holds for import_remaining_data; in
\* load_remaining_tables the failure of a step is logged twice and raised to
\* the caller of main, and no later step is called.
C20_EscalatedOnlyByLoadSteps ==
    /\ [](prog = "import_remaining_data" => pc # "raised")
    /\ [][(StepFails /\ prog = "import_remaining_data")
             => (pc' = "main" /\ cur' = cur + 1 /\ db' = db /\ Len(view') = Len(view) + 1)]_vars
    /\ [][(StepFails /\ prog = "load_remaining_tables")
             => (pc' = "raised" /\ cur' = cur /\ db' = db /\ Len(view') = Len(view) + 2)]_vars
    /\ [][(prog \in DOMAIN MainSteps /\ pc = "raised") => UNCHANGED vars]_vars

\* import_remaining_data has ended, a step has failed and a later step has
\* written its rows
C20_Witness ==
    /\ prog = "import_remaining_data" /\ pc = "done"
    /\ \E i, j \in 1..Len(sheet) :
          i < j /\ sheet[i] = "error" /\ sheet[j] = "ok" /\ InSeq(MainSteps[prog][j], db)

----------------------------------------------------------------------------
(* Imports that call col.lower() on the header itself: import_cat_meter_data *)
(* and robust_data_import.safe_import_volunteers. Here cols holds the header *)
(* values as pandas read them: text, or a number or a date when the header   *)
(* cell of the workbook holds one.                                           *)

\* col.lower() exists for a str header only; for any other header value the
\* attribute lookup raises AttributeError
HasLower(col) == col.k = "str"

HeaderTexts(headers) == [c \in 1..Len(headers) |-> headers[c].s]

\* import_cat_meter_data: the record of one row when every header is text
Extract_equipment(headers, row) ==
    [ScanColumns("cat_meter", HeaderTexts(headers), row)
        EXCEPT !.equipment_id = StripOr(row[1], <<>>)]

\* safe_import_volunteers: for col in df.columns: if 'id' in col.lower() or
\* 'volunteer' in col.lower(): id_col = col; break
IdColumn(headers) ==
    LET Matches(c) == /\ HasLower(headers[c])
                      /\ \/ Contains(<<"i","d">>, Lower(headers[c].s))
                         \/ Contains(<<"v","o","l","u","n","t","e","e","r">>, Lower(headers[c].s))
        Stops(c) == ~HasLower(headers[c]) \/ Matches(c)
        first == IF \E c \in 1..Len(headers) : Stops(c)
                 THEN CHOOSE c \in 1..Len(headers) :
                          Stops(c) /\ \A d \in 1..(c - 1) : ~Stops(d)
                 ELSE 0
    IN  [raises |-> first # 0 /\ ~HasLower(headers[first]),
         col |-> IF first # 0 /\ HasLower(headers[first]) THEN first ELSE 0]

\* str(row.get(name, '')).strip() if pd.notna(row.get(name, '')) else ''
RowGetStrip(headers, row, name) ==
    IF HasColumn(headers, Str(name)) THEN StripOr(RowGet(headers, row, Str(name)), <<>>)
    ELSE <<>>

VolunteerRecord(headers, row, id_col) ==
    [volunteer_id |-> Strip(CellText(row[id_col])),
     first_name |-> RowGetStrip(headers, row, Header.First_Name),
     last_name |-> RowGetStrip(headers, row, <<"L","a","s","t"," ","N","a","m","e">>),
     email |-> RowGetStrip(headers, row, <<"E","m","a","i","l">>),
     phone |-> RowGetStrip(headers, row, <<"P","h","o","n","e">>),
     team |-> RowGetStrip(headers, row, <<"T","e","a","m">>),
     active |-> 1]

\* header values of a workbook: text, a number, a date
HeaderValuePool ==
    {Str(Header.Volunteer_ID), Str(Header.First_Name), Str(Header.Status),
     Str(Header.Notes), Num(2024), DateVal(Value.date)}

HeaderValueCell(h) ==
    IF h = Str(Header.Volunteer_ID) THEN Str(Value.V12)
    ELSE IF h = Str(Header.First_Name) THEN Str(Value.x)
    ELSE IF h = Str(Header.Status) THEN Str(Value.Rejected)
    ELSE IF h = Str(Header.Notes) THEN Null
    ELSE IF h.k = "num" THEN Num(7)
    ELSE Str(Value.ac1_sp)

\* the first cell of a row is as its header says, another text, or blank
HeaderValueSheets ==
    {[cols |-> h, rows |-> r] :
        h \in {s \in UNION {[1..n -> HeaderValuePool] : n \in 1..MaxCols} :
                  \A i, j \in 1..Len(s) : i # j => s[i] # s[j]},
        r \in UNION {[1..n -> {"full", "other", "blank"}] : n \in 1..MaxImportRows}}

SheetRow(headers, variant) ==
    [c \in 1..Len(headers) |->
        IF c = 1 /\ variant = "other" THEN Str(Value.B7)
        ELSE IF c = 1 /\ variant = "blank" THEN Null
        ELSE HeaderValueCell(headers[c])]

InitHeaders ==
    /\ prog \in {"cat_meter", "robust_volunteers"}
    /\ pc = "loop"
    /\ \E sh \in HeaderValueSheets :
          /\ cols = sh.cols
          /\ rows = [r \in 1..Len(sh.rows) |-> SheetRow(sh.cols, sh.rows[r])]
    /\ sheet = <<>>
    /\ dtypes = <<>>
    /\ cur = 1
    /\ db = <<>>
    /\ view = <<>>
    /\ imported = 0
    /\ role = <<>>
    /\ run = 1

\* import_cat_meter_data, one row: the column scan is inside the try of the
\* row, so the AttributeError of col.lower() is printed and the row is left
ImportEquipmentRow ==
    /\ prog = "cat_meter" /\ pc = "loop" /\ cur <= Len(rows)
    /\ IF SkipRow(rows[cur]) \/ \E c \in 1..Len(cols) : ~HasLower(cols[c])
       THEN UNCHANGED <<view, imported>>
       ELSE /\ view' = Append(view, Extract_equipment(cols, rows[cur]))
            /\ imported' = imported + 1
    /\ cur' = cur + 1
    /\ UNCHANGED <<prog, run, pc, sheet, cols, dtypes, rows, db, role>>

\* safe_import_volunteers, one row: the scan for the id column is outside the
\* try of the row, so the AttributeError ends the loop in the except of the
\* function, before conn.commit()
SafeImportVolunteersRow ==
    /\ prog = "robust_volunteers" /\ pc = "loop" /\ cur <= Len(rows)
    /\ LET scan == IdColumn(cols)
           rec == VolunteerRecord(cols, rows[cur], scan.col)
           Other(v) == v.volunteer_id # rec.volunteer_id
       IN  IF scan.raises
           THEN /\ pc' = "raised"
                /\ UNCHANGED <<cur, view, imported>>
           ELSE /\ pc' = pc
                /\ cur' = cur + 1
                /\ IF scan.col = 0 \/ ~NonEmptyCell(rows[cur][scan.col])
                   THEN UNCHANGED <<view, imported>>
                   ELSE /\ view' = Append(SelectSeq(view, Other), rec)
                        /\ imported' = imported + 1
    /\ UNCHANGED <<prog, run, sheet, cols, dtypes, rows, db, role>>

\* conn.commit() after the loop
CommitHeaders ==
    /\ prog \in {"cat_meter", "robust_volunteers"}
    /\ pc = "loop" /\ cur > Len(rows)
    /\ db' = view
    /\ pc' = "committed"
    /\ UNCHANGED <<prog, run, sheet, cols, dtypes, rows, cur, view, imported, role>>

NextHeaders == ImportEquipmentRow \/ SafeImportVolunteersRow \/ CommitHeaders

SpecHeaders == InitHeaders /\ [][NextHeaders]_vars

\* the rows of the sheet the import takes when a header that is not text is
\* simply a column without a role
TextHeaders(headers) ==
    [c \in 1..Len(headers) |-> IF HasLower(headers[c]) THEN headers[c] ELSE Str(<<>>)]

RowsToImport ==
    IF prog = "cat_meter" THEN {r \in 1..Len(rows) : ~SkipRow(rows[r])}
    ELSE {r \in 1..Len(rows) :
             /\ IdColumn(TextHeaders(cols)).col # 0
             /\ NonEmptyCell(rows[r][IdColumn(TextHeaders(cols)).col])}

HeadersRunOver == pc \in {"committed", "raised"}

\* C21: column classification never raises whatever the header values are,
\* and no row of the sheet is lost because of a header: when the import is
\* over it has not ended in an exception and it has inserted every row it
\* takes
C21_NoRowLostToHeader ==
    HeadersRunOver => pc # "raised" /\ imported = Cardinality(RowsToImport)

\* C21, what the code keeps: a sheet whose headers are all text loses no row
C21_TextHeadersLoseNoRow ==
    (HeadersRunOver /\ \A c \in 1..Len(cols) : HasLower(cols[c]))
        => pc # "raised" /\ imported = Cardinality(RowsToImport)

\* C21, the rows that are lost: with a header that is not text the CAT meter
\* import inserts no row at all
C21_RowsLostToHeader ==
    (prog = "cat_meter" /\ \E c \in 1..Len(cols) : ~HasLower(cols[c])) => imported = 0

----------------------------------------------------------------------------
(* database_setup.import_cleaned_data: three sections, each in its own try.  *)
(* sheet holds, for each cleaned workbook, whether the file exists, whether  *)
(* its sheet can be read, and its rows; view and db hold the three tables;   *)
(* role tells whether the local name cursor is bound: the only assignment    *)
(* cursor = conn.cursor() is in the sites section, after the rows are read.  *)

\* str(row.get('Site', '')): a missing cell reads 'nan'
SiteText(cell) == IF IsNa(cell) THEN Text.nan ELSE CellText(cell)

\* the rows one workbook of cleaned_data can hold: site and value
SetupRows ==
    UNION {[1..n -> {<<Str(Value.AC1), Num(7)>>, <<Null, Null>>}] : n \in 0..MaxImportRows}

\* a workbook is absent, present without the sheet that is read, present and
\* readable, or (sites) readable with a first row that holds a cell sqlite
\* cannot bind, so that executemany raises before any row is inserted
SetupFiles(states) ==
    {f \in [state : states, rows : SetupRows] :
        f.state \in {"absent", "unreadable"} => f.rows = <<>>}

InitSetup ==
    /\ prog = "database_setup"
    /\ pc = "sites"
    /\ sheet \in [sites : SetupFiles({"absent", "unreadable", "ok", "unbindable"}),
                  bact : SetupFiles({"absent", "unreadable", "ok"}),
                  bat : SetupFiles({"absent", "unreadable", "ok"})]
    /\ role = "unbound"
    /\ db = [sites |-> <<>>, water_quality |-> <<>>, biological_data |-> <<>>]
    /\ view = db
    /\ cols = <<>> /\ dtypes = <<>> /\ rows = <<>>
    /\ cur = 1 /\ imported = 0 /\ run = 1

\* INSERT OR REPLACE INTO sites, one row after the other
RECURSIVE ReplaceSites(_, _)
ReplaceSites(table, sites_data) ==
    IF sites_data = <<>> THEN table
    ELSE LET Other(s) == s.site_id # Head(sites_data).site_id
         IN  ReplaceSites(Append(SelectSeq(table, Other), Head(sites_data)), Tail(sites_data))

\* the sites section: read_excel raises before cursor is assigned; executemany
\* raises after it
ImportSitesSection ==
    /\ prog = "database_setup" /\ pc = "sites"
    /\ LET sites_data == [r \in 1..Len(sheet.sites.rows) |->
                              [site_id |-> SiteText(sheet.sites.rows[r][1])]]
       IN  /\ role' = IF sheet.sites.state \in {"ok", "unbindable"} THEN "bound" ELSE role
           /\ view' = IF sheet.sites.state = "ok"
                      THEN [view EXCEPT !.sites = ReplaceSites(@, sites_data)]
                      ELSE view
    /\ pc' = "water_quality"
    /\ UNCHANGED <<prog, run, sheet, cols, dtypes, rows, cur, db, imported>>

\* the records of one parameter sheet: a row gives a record when its value
\* is there
ValueRecords(file_rows) ==
    LET HasValue(row) == ~IsNa(row[2])
        kept == SelectSeq(file_rows, HasValue)
    IN  [r \in 1..Len(kept) |-> [site_id |-> SiteText(kept[r][1]), value |-> kept[r][2].v]]

\* the water-quality section, one parameter sheet: cursor.executemany is
\* reached when there are records, and raises UnboundLocalError, caught by the
\* except of the parameter, when cursor was never assigned
ImportWaterQualitySection ==
    /\ prog = "database_setup" /\ pc = "water_quality"
    /\ LET water_quality_data == ValueRecords(sheet.bact.rows)
       IN  view' = IF sheet.bact.state = "ok" /\ water_quality_data # <<>> /\ role = "bound"
                   THEN [view EXCEPT !.water_quality = @ \o water_quality_data]
                   ELSE view
    /\ pc' = "biological_data"
    /\ UNCHANGED <<prog, run, sheet, cols, dtypes, rows, cur, db, imported, role>>

\* the biological section: every row gives a record
ImportBiologicalSection ==
    /\ prog = "database_setup" /\ pc = "biological_data"
    /\ LET biological_data == [r \in 1..Len(sheet.bat.rows) |->
                                   [site_id |-> SiteText(sheet.bat.rows[r][1])]]
       IN  view' = IF sheet.bat.state = "ok" /\ biological_data # <<>> /\ role = "bound"
                   THEN [view EXCEPT !.biological_data = @ \o biological_data]
                   ELSE view
    /\ pc' = "commit"
    /\ UNCHANGED <<prog, run, sheet, cols, dtypes, rows, cur, db, imported, role>>

\* conn.commit() at the end of import_cleaned_data
CommitSetup ==
    /\ prog = "database_setup" /\ pc = "commit"
    /\ db' = view
    /\ pc' = "done"
    /\ UNCHANGED <<prog, run, sheet, cols, dtypes, rows, cur, view, imported, role>>

NextSetup ==
    ImportSitesSection \/ ImportWaterQualitySection \/ ImportBiologicalSection \/ CommitSetup

SpecSetup == InitSetup /\ [][NextSetup]_vars

SetupDone == prog = "database_setup" /\ pc = "done"

SitesSectionFailed == sheet.sites.state # "ok"

\* the records a readable workbook gives are in its table
SectionRecordsStored ==
    /\ sheet.bact.state = "ok" => Len(db.water_quality) = Len(ValueRecords(sheet.bact.rows))
    /\ sheet.bat.state = "ok" => Len(db.biological_data) = Len(sheet.bat.rows)

\* C22: the three sections of import_cleaned_data are independent: when the
\* cleaned sites file is absent or its import fails, the water-quality and
\* biological sections still insert their records whenever their own files
\* are readable
C22_SectionsIndependent ==
    (SetupDone /\ SitesSectionFailed) => SectionRecordsStored

\* C22, what the code keeps: the later sections insert their records when the
\* sites section got as far as cursor = conn.cursor()
C22_IndependentOnceCursorBound ==
    (SetupDone /\ role = "bound") => SectionRecordsStored

\* C22, what is lost: without the sites sheet nothing is inserted at all
C22_NothingInsertedWithoutSitesSheet ==
    (SetupDone /\ sheet.sites.state \in {"absent", "unreadable"})
        => db.water_quality = <<>> /\ db.biological_data = <<>>

----------------------------------------------------------------------------
(* C23: the clear step of fix_database_import *)

TableMissing == prog = "fix_database_import" /\ ~(TableSet \subseteq role)

\* C23: the clear step is all-or-nothing. If one of the six tables of
\* clear_database does not exist, main aborts without importing anything:
\* no step changes the committed rows, no import step runs, and once the
\* connection is closed every table holds the rows it held before the run.
\* Otherwise the clear step empties all six tables and commits the deletion.
C23_ClearAllOrNothing ==
    /\ [][TableMissing => (db' = db /\ imported' = imported
                           /\ pc' \in {"aborted", "closed"})]_vars
    /\ [](TableMissing /\ pc = "closed" => view = db)
    /\ [][(prog = "fix_database_import" /\ ~TableMissing /\ pc = "connected")
             => (pc' = "cleared" /\ db' = <<>> /\ view' = <<>>)]_vars

\* a run on a database without the equipment table has ended: the sites row
\* deleted before the failure is back, and workbooks with rows were there
C23_Witness ==
    /\ TableMissing /\ pc = "closed"
    /\ "sites" \in role
    /\ db = <<OldSite>>
    /\ sheet.sites # <<>> /\ sheet.param # <<>>

----------------------------------------------------------------------------
(* C24: several columns with the same role *)

\* the two imports whose column scan has a site branch and no row filter
\* before it: import_wqx_data and the bacterial sheets of import_bact_hab_data
InitScan == prog \in {"wqx", "bact_hab"} /\ InitImport

NextScan == ImportWqxRow \/ ImportBacterialRow \/ CommitImport

SpecScan == InitScan /\ [][NextScan]_vars

\* the columns of the sheet whose header the elif chain sends to field f
ColumnsOf(script, f) == {c \in 1..Len(cols) : Branch(script, Lower(cols[c])) = f}

RightMost(S) == CHOOSE c \in S : \A d \in S : d <= c

InScan == prog \in {"wqx", "bact_hab"} /\ pc = "loop" /\ cur <= Len(rows)

\* C24: when several columns of a sheet match the same role, the column scan
\* ends with the value read from the right-most of them, null cell included
\* (a null cell gives the empty text or the literal of the branch); a row of
\* the WQX sheet whose right-most site column is null therefore has an empty
\* site_id and is not inserted, whatever an earlier site column holds
C24_RightmostColumnWins ==
    /\ [](InScan =>
            \A scanned \in {ScanColumns(prog, cols, rows[cur])} :
            \A branch \in {{<<c, Branch(prog, Lower(cols[c]))>> : c \in 1..Len(cols)}} :
                \A b \in branch :
                    (b[2] # "none" /\ \A d \in branch : d[1] > b[1] => d[2] # b[2])
                        => scanned[b[2]] = ReadField(b[2], rows[cur][b[1]], Defaults(prog)[b[2]]))
    /\ [][(InScan /\ prog = "wqx" /\ ColumnsOf("wqx", "site_id") # {}
             /\ IsNa(rows[cur][RightMost(ColumnsOf("wqx", "site_id"))]))
            => view' = view]_vars

\* the WQX import has passed a row with 'Site' = 'ac1 ', 'Result' = 7 and a
\* null 'Site Notes' cell, and has inserted nothing
C24_Witness ==
    /\ prog = "wqx" /\ pc = "loop" /\ cur = 2
    /\ cols = <<Header.Site, Header.Result, Header.Site_Notes>>
    /\ rows[1] = <<Str(Value.ac1_sp), Str(Value.n7), Null>>
    /\ view = <<>>

----------------------------------------------------------------------------
(* C25: what import_bact_hab_data writes to bacterial_data *)

\* the result the scan ends with is read from a cell that is null or that
\* float() cannot parse
ResultReadsAsZero ==
    /\ ColumnsOf("bact_hab", "result") # {}
    /\ LET cell == rows[cur][RightMost(ColumnsOf("bact_hab", "result"))]
       IN  IsNa(cell) \/ Unparseable(cell)

\* C25: import_bact_hab_data inserts a bacterial_data row only when the record
\* has a non-empty site_id and a result strictly greater than 0; a result cell
\* that is null or fails float parsing is taken as 0.0, so its row is not
\* inserted, and no row of bacterial_data has an empty site_id or a result <= 0
C25_BacterialRowsHaveSiteAndResult ==
    /\ [](prog = "bact_hab" =>
            \A k \in 1..Len(view) : view[k].site_id # <<>> /\ view[k].result > 0)
    /\ [][(InScan /\ prog = "bact_hab" /\ ResultReadsAsZero) => view' = view]_vars

\* a bacterial sheet has been imported whose first row has a site and an
\* unparseable result and whose second row has a site and the result 7: one
\* row is in the table
C25_Witness ==
    /\ prog = "bact_hab" /\ pc = "committed"
    /\ cols = LayoutOf("bact_hab")
    /\ Len(rows) = 2
    /\ rows[1] = <<Str(Value.AC1_2024), Str(Value.B7), Null, Str(Value.bad), Null>>
    /\ rows[2][4] = Str(Value.n7)
    /\ Len(db) = 1 /\ db[1].result = 7

----------------------------------------------------------------------------
(* import_bact_hab_data over the sheets of the workbook: each sheet is read  *)
(* and handled in one pass of the loop over xl_file.sheet_names, and every   *)
(* name used for a row is assigned anew for each row, so the passes differ   *)
(* only in the sheet they read. sheet is the name of the sheet.              *)

is_algal(sheet_name) ==
    \E keyword \in {<<"h","a","b">>, <<"a","l","g","a","l">>, <<"b","l","o","o","m">>,
                    <<"p","h","y","c","o">>} : Contains(keyword, Lower(sheet_name))

\* a choice that looks at the algal keywords first
SheetKind_AlgalFirst(sheet_name) ==
    IF is_algal(sheet_name) THEN "algal"
    ELSE IF is_bacterial(sheet_name) THEN "bacterial"
    ELSE "general"

\* if is_bacterial: ... elif is_algal: ... else: ...
SheetKind(sheet_name) ==
    IF is_bacterial(sheet_name) THEN "bacterial"
    ELSE IF is_algal(sheet_name) THEN "algal"
    ELSE "general"

\* algal sheet: scan, site from the first cell that looks like a site code
Extract_algal(headers, row) ==
    LET r0 == ScanColumns("bact_hab_algal", headers, row)
        s  == IF r0.site_id = <<>> THEN FirstCell(row, LooksLikeSiteCode) ELSE 0
        r1 == IF s # 0 THEN [r0 EXCEPT !.site_id = Strip(CellText(row[s]))] ELSE r0
    IN  [rec |-> r1,
         roles |-> AddRole(ScanRoles("bact_hab_algal", headers), s, "site_id"),
         insert |-> r1.site_id # <<>> /\ r1.value > 0]

\* general sheet: the scan only
Extract_general(headers, row) ==
    LET r0 == ScanColumns("bact_hab_general", headers, row)
    IN  [rec |-> r0,
         roles |-> ScanRoles("bact_hab_general", headers),
         insert |-> r0.site_id # <<>> /\ (r0.parameter # <<>> \/ r0.value > 0)]

\* sheets of the workbook: their names and rows
WorkbookSheets ==
    {[name |-> n, cols |-> <<Header.Sample_Code, Header.Station, Header.Result, Header.Status>>,
      rows |-> rws] :
        n \in {SheetName.IDEXX_Results, SheetName.HAB_Samples, SheetName.Bact_and_HAB,
               SheetName.Field_Data},
        rws \in UNION {[1..k -> {<<Str(Value.AC1_2024), Str(Value.B7), Str(Value.n7), Str(Value.Rejected)>>,
                                 <<Str(Value.AC1_2024), Null, Str(Value.n7), Null>>,
                                 <<Null, Str(Value.B7), Str(Value.n7), Null>>,
                                 <<Str(Value.AC1_2024), Str(Value.B7), Str(Value.bad), Null>>}] :
                          k \in 1..MaxImportRows}}

InitSheets ==
    /\ prog = "bact_hab_workbook"
    /\ pc = "loop"
    /\ \E sh \in WorkbookSheets :
          /\ sheet = sh.name
          /\ cols = sh.cols
          /\ rows = sh.rows
    /\ dtypes = <<>>
    /\ cur = 1
    /\ db = <<>>
    /\ view = <<>>
    /\ imported = 0
    /\ role = <<>>
    /\ run = 1

\* one row of the sheet, in the branch chosen from the sheet name
ImportSheetRow ==
    /\ prog = "bact_hab_workbook"
    /\ LoopStep(CASE SheetKind(sheet) = "bacterial" -> Extract_bacterial(cols, rows[cur])
                  [] SheetKind(sheet) = "algal" -> Extract_algal(cols, rows[cur])
                  [] SheetKind(sheet) = "general" -> Extract_general(cols, rows[cur]))

NextSheets == ImportSheetRow \/ CommitImport

SpecSheets == InitSheets /\ [][NextSheets]_vars

\* the table a record is inserted into, told by the columns of its INSERT
TableOf(rec) ==
    IF "test_type" \in DOMAIN rec THEN "bacterial_data"
    ELSE IF "bloom_status" \in DOMAIN rec THEN "algal_bloom_data"
    ELSE "historical_water_quality"

\* C26: import_bact_hab_data handles each sheet in exactly one of three ways
\* chosen from the sheet name: bacterial if the name contains a bacterial
\* keyword (even when it also contains an algal keyword), else algal if it
\* contains an algal keyword, else general water quality; the rows of one
\* sheet are never written to more than one destination table
C26_OneDestinationPerSheet ==
    prog = "bact_hab_workbook" =>
        \A k \in 1..Len(view) :
            TableOf(view[k]) = IF is_bacterial(sheet) THEN "bacterial_data"
                               ELSE IF is_algal(sheet) THEN "algal_bloom_data"
                               ELSE "historical_water_quality"

\* the sheet 'BACT and HAB', whose name holds a bacterial and an algal keyword,
\* has been imported and its rows are in bacterial_data
C26_Witness ==
    /\ prog = "bact_hab_workbook" /\ pc = "committed"
    /\ sheet = SheetName.Bact_and_HAB
    /\ is_bacterial(sheet) /\ is_algal(sheet)
    /\ Len(db) = 2
    /\ \A k \in 1..Len(db) : TableOf(db[k]) = "bacterial_data"

----------------------------------------------------------------------------
(* C27: the volunteers table over runs of import_volunteer_tracking *)

InitVolunteers == prog = "volunteer_info" /\ InitImport

NextVolunteers == ImportVolunteerRow \/ CommitImport \/ Rerun

SpecVolunteers == InitVolunteers /\ [][NextVolunteers]_vars

OneRowPerVolunteer(table) ==
    \A i, j \in 1..Len(table) : table[i].volunteer_id = table[j].volunteer_id => i = j

\* the rows of the sheet that reach the INSERT, with the record of each
InsertedRows == {r \in 1..Len(rows) : ~SkipRow(rows[r]) /\ Extract_volunteers(cols, rows[r]).insert}

\* the table holds, for each identifier, the record of the last row with it
LastOccurrenceWins ==
    \A recs \in {[r \in InsertedRows |-> Extract_volunteers(cols, rows[r]).rec]} :
        /\ \A r \in InsertedRows : \E k \in 1..Len(db) : db[k].volunteer_id = recs[r].volunteer_id
        /\ \A k \in 1..Len(db) : \E r \in InsertedRows :
              /\ db[k] = recs[r]
              /\ \A q \in InsertedRows : q > r => recs[q].volunteer_id # recs[r].volunteer_id

\* C27: after any sequence of volunteer imports the volunteers table holds at
\* most one row per volunteer_id, the row of the last occurrence; a second run
\* on the same input commits the same set of volunteers; and the count that is
\* printed is never below the number of rows present (it is above it when
\* identifiers repeat)
C27_OneRowPerVolunteerId ==
    /\ [](prog = "volunteer_info" =>
            /\ OneRowPerVolunteer(view) /\ OneRowPerVolunteer(db)
            /\ pc = "committed" => (LastOccurrenceWins /\ Len(db) <= imported))
    /\ [][(prog = "volunteer_info" /\ run > 1 /\ pc = "loop" /\ pc' = "committed")
            => {db'[k] : k \in 1..Len(db')} = {db[k] : k \in 1..Len(db)}]_vars

\* the second run on a sheet whose two rows carry the same first name and no
\* identifier has committed: 2 is printed and the table holds one row, with
\* the identifier made from the name
C27_Witness ==
    /\ prog = "volunteer_info" /\ pc = "committed" /\ run = 2
    /\ cols = <<Header.First_Name, Header.Volunteer_ID>>
    /\ imported = 2 /\ Len(db) = 1
    /\ db[1].volunteer_id = <<"x", "_">>

----------------------------------------------------------------------------
(* streamwatch_etl.clean_excel_file and the use main makes of its result.    *)
(* sheet holds what the file will meet: whether pd.ExcelFile opens it, what  *)
(* reading and cleaning each sheet does, max_sheets (0 for None) and whether *)
(* the writer saves the output; cur is the sheet the loop is at, view the    *)
(* keys of cleaned_sheets, db the value returned, imported the length of     *)
(* cleaned_files in main.                                                    *)

MaxSheets == 3

InitEtlFile ==
    /\ prog = "clean_excel_file"
    /\ pc = "open"
    /\ sheet \in [open : {"ok", "error"},
                  sheets : UNION {[1..n -> {"ok", "read_error", "clean_error"}] : n \in 1..MaxSheets},
                  max_sheets : 0..(MaxSheets - 1),
                  save : {"ok", "error"}]
    /\ cur = 1
    /\ view = <<>>
    /\ db = [none |-> FALSE, cleaned_sheets |-> <<>>]
    /\ imported = 0
    /\ cols = <<>> /\ dtypes = <<>> /\ rows = <<>> /\ role = <<>> /\ run = 1

EtlUnchanged == UNCHANGED <<prog, run, sheet, cols, dtypes, rows, role>>

\* sheets_to_process: excel_file.sheet_names, cut to max_sheets when it is set
sheets_to_process ==
    IF sheet.max_sheets # 0 /\ sheet.max_sheets < Len(sheet.sheets)
    THEN SubSeq(sheet.sheets, 1, sheet.max_sheets)
    ELSE sheet.sheets

\* os.path.getsize and pd.ExcelFile: an exception here is caught by the
\* except of the function, which returns (None, None)
OpenFile ==
    /\ prog = "clean_excel_file" /\ pc = "open"
    /\ IF sheet.open = "ok"
       THEN pc' = "sheets" /\ db' = db
       ELSE pc' = "returned" /\ db' = [none |-> TRUE, cleaned_sheets |-> <<>>]
    /\ UNCHANGED <<cur, view, imported>>
    /\ EtlUnchanged

\* one pass of the loop: read_excel and clean_sheet_data in the try of the
\* sheet; except: print and continue
ProcessSheet ==
    /\ prog = "clean_excel_file" /\ pc = "sheets" /\ cur <= Len(sheets_to_process)
    /\ view' = IF sheets_to_process[cur] = "ok" THEN Append(view, cur) ELSE view
    /\ cur' = cur + 1
    /\ UNCHANGED <<pc, db, imported>>
    /\ EtlUnchanged

\* the output is written outside the try of the sheets; main always passes
\* an output_path. The writer cannot save a workbook without a sheet: with
\* cleaned_sheets empty, leaving the with block raises IndexError, caught by
\* the except of the function like any other error of the writer
SaveFile ==
    /\ prog = "clean_excel_file" /\ pc = "sheets" /\ cur > Len(sheets_to_process)
    /\ db' = IF sheet.save = "ok" /\ view # <<>>
             THEN [none |-> FALSE, cleaned_sheets |-> view]
             ELSE [none |-> TRUE, cleaned_sheets |-> <<>>]
    /\ pc' = "returned"
    /\ UNCHANGED <<cur, view, imported>>
    /\ EtlUnchanged

\* main: if cleaned_sheets: cleaned_files.append(file); None and the empty
\* dict are both false
MainCount ==
    /\ prog = "clean_excel_file" /\ pc = "returned"
    /\ imported' = IF ~db.none /\ db.cleaned_sheets # <<>> THEN imported + 1 ELSE imported
    /\ pc' = "counted"
    /\ UNCHANGED <<cur, view, db>>
    /\ EtlUnchanged

NextEtlFile == OpenFile \/ ProcessSheet \/ SaveFile \/ MainCount

SpecEtlFile == InitEtlFile /\ [][NextEtlFile]_vars

\* the selected sheets whose read and cleaning do not raise, in order
SheetsThatClean ==
    LET Ok(i) == sheets_to_process[i] = "ok"
    IN  SelectSeq([i \in 1..Len(sheets_to_process) |-> i], Ok)

FileLevelFailure == sheet.open = "error" \/ sheet.save = "error"

\* C28: clean_excel_file isolates failures per sheet: a sheet whose read or
\* cleaning raises is left out of the result while every other selected sheet
\* is still cleaned and returned; only a file-level failure (opening the
\* workbook, writing the output) returns (None, None); and main counts a file
\* as cleaned only if at least one sheet was cleaned
C28_FailuresIsolatedPerSheet ==
    prog = "clean_excel_file" =>
        /\ pc \in {"returned", "counted"} =>
              /\ db.none <=> FileLevelFailure
              /\ ~db.none => db.cleaned_sheets = SheetsThatClean
        /\ pc = "counted" =>
              (imported = 1 <=> (~FileLevelFailure /\ SheetsThatClean # <<>>))

\* C28, what the code keeps: when at least one selected sheet is cleaned, the
\* sheets that raise are left out, the others are returned, and (None, None)
\* is returned for a file-level failure only
C28_IsolatedWhenASheetCleans ==
    (prog = "clean_excel_file" /\ pc \in {"returned", "counted"} /\ SheetsThatClean # <<>>) =>
        /\ db.none <=> FileLevelFailure
        /\ ~db.none => db.cleaned_sheets = SheetsThatClean

\* C28, what the code keeps: main counts a file only if a sheet was cleaned
C28_MainCountsCleanedFiles ==
    (prog = "clean_excel_file" /\ pc = "counted") =>
        (imported = 1 <=> (~FileLevelFailure /\ SheetsThatClean # <<>>))

----------------------------------------------------------------------------
(* C29: the site code taken from the cells of the row *)

\* the row at cur is inserted with a site_id that no site column gave
FallbackSiteInserted ==
    /\ InScan /\ prog = "bact_hab" /\ ~SkipRow(rows[cur])
    /\ ScanColumns("bact_hab", cols, rows[cur]).site_id = <<>>
    /\ Len(view') = Len(view) + 1

\* the trimmed text of the left-most non-empty cell of the row at cur whose
\* length is between lo and 4 and that is alphanumeric
LeftMostCode(lo) ==
    LET Shaped(c) == /\ NonEmptyCell(rows[cur][c])
                     /\ Len(Strip(CellText(rows[cur][c]))) \in lo..4
                     /\ IsAlnum(Strip(CellText(rows[cur][c])))
    IN  {Strip(CellText(rows[cur][c])) : c \in {d \in 1..Len(cols) :
                                                 Shaped(d) /\ \A e \in 1..(d - 1) : ~Shaped(e)}}

\* C29: when no site column yields a value, the fallback site code of a row
\* is the left-most non-empty cell whose trimmed text is 2 to 4 characters
\* long and alphanumeric; a cell outside that shape is never taken as site_id
C29_FallbackSiteIsTwoToFourAlnum ==
    [][FallbackSiteInserted => view'[Len(view')].site_id \in LeftMostCode(2)]_vars

\* C29, what the code keeps: the fallback is the left-most non-empty cell of
\* at most 4 alphanumeric characters, one character included
C29_FallbackSiteIsAtMostFourAlnum ==
    [][FallbackSiteInserted => view'[Len(view')].site_id \in LeftMostCode(1)]_vars

----------------------------------------------------------------------------
(* setup_and_run.py: main and the exit of the process. sheet holds what each *)
(* step will do: return True, return False, or raise an exception that       *)
(* neither the step nor run_command catches (run_command catches             *)
(* CalledProcessError only). cur is the step main is about to call, view the *)
(* steps called so far, role what main returned, imported the exit code.     *)

\* the calls of main, in the order of its if statements
SetupSteps ==
    <<"check_requirements", "check_data_files", "setup_database", "run_etl", "test_connection">>

InitSetupRun ==
    /\ prog = "setup_and_run"
    /\ pc = "main"
    /\ sheet \in [1..Len(SetupSteps) -> {"ok", "fail", "raise"}]
    /\ cur = 1
    /\ view = <<>>
    /\ role = "none"
    /\ imported = 0
    /\ db = <<>> /\ cols = <<>> /\ dtypes = <<>> /\ rows = <<>> /\ run = 1

SetupRunUnchanged == UNCHANGED <<prog, run, sheet, cols, dtypes, rows, db, imported>>

\* a main that goes on to the next step after a step has returned False
RunStep_ContinueOnFailure ==
    /\ prog = "setup_and_run" /\ pc = "main" /\ cur <= Len(SetupSteps)
    /\ view' = Append(view, SetupSteps[cur])
    /\ IF sheet[cur] = "raise"
       THEN pc' = "raised" /\ UNCHANGED <<cur, role>>
       ELSE cur' = cur + 1 /\ UNCHANGED <<pc, role>>
    /\ SetupRunUnchanged

\* if not step(): print(...); return False
RunStep ==
    /\ prog = "setup_and_run" /\ pc = "main" /\ cur <= Len(SetupSteps)
    /\ view' = Append(view, SetupSteps[cur])
    /\ CASE sheet[cur] = "ok" -> cur' = cur + 1 /\ UNCHANGED <<pc, role>>
         [] sheet[cur] = "fail" -> pc' = "returned" /\ role' = "False" /\ UNCHANGED cur
         [] sheet[cur] = "raise" -> pc' = "raised" /\ UNCHANGED <<cur, role>>
    /\ SetupRunUnchanged

\* return True after the fifth step
ReturnTrue ==
    /\ prog = "setup_and_run" /\ pc = "main" /\ cur > Len(SetupSteps)
    /\ pc' = "returned"
    /\ role' = "True"
    /\ UNCHANGED <<cur, view>>
    /\ SetupRunUnchanged

\* sys.exit(0 if success else 1); an exception that leaves main ends the
\* process with the exit code 1
ExitProcess ==
    /\ prog = "setup_and_run" /\ pc \in {"returned", "raised"}
    /\ imported' = IF pc = "returned" /\ role = "True" THEN 0 ELSE 1
    /\ pc' = "exited"
    /\ UNCHANGED <<prog, run, sheet, cols, dtypes, rows, db, cur, view, role>>

NextSetupRun == RunStep \/ ReturnTrue \/ ExitProcess

SpecSetupRun == InitSetupRun /\ [][NextSetupRun]_vars

AllStepsSucceed == \A k \in 1..Len(SetupSteps) : sheet[k] = "ok"

\* C30: setup_and_run.main runs its five steps in the fixed order requirements
\* check, data-file check, database setup, ETL run, connection test; a step
\* runs only if every earlier step succeeded, nothing is retried, main returns
\* True only when all five succeeded, and the process exit code is 0 exactly
\* in that case
C30_StepsInOrderUntilFailure ==
    prog = "setup_and_run" =>
        /\ Len(view) <= Len(SetupSteps) /\ view = SubSeq(SetupSteps, 1, Len(view))
        /\ \A k \in 1..Len(view) : \A j \in 1..(k - 1) : sheet[j] = "ok"
        /\ role = "True" => (AllStepsSucceed /\ view = SetupSteps)
        /\ pc = "exited" => (imported = 0 <=> AllStepsSucceed)

\* the process has exited with code 1 after the database setup failed: the
\* ETL run and the connection test, which would have succeeded, were not run
C30_Witness ==
    /\ prog = "setup_and_run" /\ pc = "exited"
    /\ sheet = <<"ok", "ok", "fail", "ok", "ok">>
    /\ view = <<"check_requirements", "check_data_files", "setup_database">>
    /\ role = "False" /\ imported = 1

====
